---- MODULE Spec2Model ----
(***************************************************************************)
(* State-machine model of the court bot: the guild state store (model.rs), *)
(* the lawsuit lifecycle (lawsuit.rs) and the command dispatch             *)
(* (handler.rs).  Every await on the store or on the platform is one step  *)
(* of the task that performs it, so tasks interleave where the async       *)
(* runtime lets them.                                                      *)
(***************************************************************************)
EXTENDS Naturals, Sequences, FiniteSets, TLC

\* ------------------------------------------------------------------ bounds
\* Commands received over a run.  Every create command draws one Uuid::new(),
\* so a run holds at most as many lawsuits as it holds commands.
MaxCommands == 3
\* The budget of the runs in which every command waits for the setup task of
\* the one before it.
SerialCommands == MaxCommands + 1

\* ------------------------------------------------------------- input sets
Guilds == {40}
Users == {11, 12, 13, 14, 15}
Categories == {50, 51}
Verdicts == {"guilty", "innocent"}
\* A text channel of the guild that is no court room.
LobbyChannel == [id |-> 60, name |-> <<"lobby">>, parent_id |-> <<>>]

\* ------------------------------------------------------------ Option<T>
None == <<>>
Some(x) == <<x>>
IsSome(o) == Len(o) > 0
IsNone(o) == Len(o) = 0
Unwrap(o) == o[1]

\* First of the indices `hits` of a sequence whose elements satisfy a
\* predicate, 0 when there is none (Iterator::find on a Vec).
FindIndex(hits) ==
    IF hits = {} THEN 0 ELSE CHOOSE i \in hits : \A j \in hits : i <= j

RemoveAt(s, i) == SubSeq(s, 1, i - 1) \o SubSeq(s, i + 1, Len(s))

\* ------------------------------------------------- SnowflakeId <-> string
DigitChars == <<"0", "1", "2", "3", "4", "5", "6", "7", "8", "9">>

\* Display for SnowflakeId: the decimal digits of the u64.
RECURSIVE SnowflakeDisplay(_)
SnowflakeDisplay(n) ==
    IF n < 10 THEN <<DigitChars[n + 1]>>
    ELSE Append(SnowflakeDisplay(n \div 10), DigitChars[(n % 10) + 1])

DigitValue(c) == CHOOSE d \in 0..9 : DigitChars[d + 1] = c

\* FromStr for SnowflakeId: u64::from_str of a decimal string.
RECURSIVE SnowflakeFromStr(_)
SnowflakeFromStr(s) ==
    IF Len(s) = 1 THEN DigitValue(s[1])
    ELSE SnowflakeFromStr(SubSeq(s, 1, Len(s) - 1)) * 10 + DigitValue(s[Len(s)])

\* serde_string::serialize / From<SnowflakeId> for Bson: both store the id as
\* its decimal string.
SnowflakeToBson(id) == SnowflakeDisplay(id)
SerializeSnowflake(id) == SnowflakeDisplay(id)
DeserializeSnowflake(s) == SnowflakeFromStr(s)

SerializeOption(o) == IF IsSome(o) THEN Some(SerializeSnowflake(Unwrap(o))) ELSE None
DeserializeOption(o) == IF IsSome(o) THEN Some(DeserializeSnowflake(Unwrap(o))) ELSE None

\* ---------------------------------------------- documents (serde derive)
SerializeLawsuit(l) ==
    [id |-> l.id,
     plaintiff |-> SerializeSnowflake(l.plaintiff),
     accused |-> SerializeSnowflake(l.accused),
     plaintiff_lawyer |-> SerializeOption(l.plaintiff_lawyer),
     accused_lawyer |-> SerializeOption(l.accused_lawyer),
     judge |-> SerializeSnowflake(l.judge),
     reason |-> l.reason,
     verdict |-> l.verdict,
     court_room |-> SerializeSnowflake(l.court_room)]

DeserializeLawsuit(d) ==
    [id |-> d.id,
     plaintiff |-> DeserializeSnowflake(d.plaintiff),
     accused |-> DeserializeSnowflake(d.accused),
     plaintiff_lawyer |-> DeserializeOption(d.plaintiff_lawyer),
     accused_lawyer |-> DeserializeOption(d.accused_lawyer),
     judge |-> DeserializeSnowflake(d.judge),
     reason |-> d.reason,
     verdict |-> d.verdict,
     court_room |-> DeserializeSnowflake(d.court_room)]

SerializeCourtRoom(r) ==
    [channel_id |-> SerializeSnowflake(r.channel_id),
     ongoing_lawsuit |-> r.ongoing_lawsuit,
     role_id |-> SerializeSnowflake(r.role_id)]

DeserializeCourtRoom(d) ==
    [channel_id |-> DeserializeSnowflake(d.channel_id),
     ongoing_lawsuit |-> d.ongoing_lawsuit,
     role_id |-> DeserializeSnowflake(d.role_id)]

SerializeState(s) ==
    [guild_id |-> SerializeSnowflake(s.guild_id),
     lawsuits |-> [i \in 1..Len(s.lawsuits) |-> SerializeLawsuit(s.lawsuits[i])],
     court_category |-> SerializeOption(s.court_category),
     court_rooms |-> [i \in 1..Len(s.court_rooms) |-> SerializeCourtRoom(s.court_rooms[i])],
     prison_role |-> SerializeOption(s.prison_role)]

DeserializeState(d) ==
    [guild_id |-> DeserializeSnowflake(d.guild_id),
     lawsuits |-> [i \in 1..Len(d.lawsuits) |-> DeserializeLawsuit(d.lawsuits[i])],
     court_category |-> DeserializeOption(d.court_category),
     court_rooms |-> [i \in 1..Len(d.court_rooms) |-> DeserializeCourtRoom(d.court_rooms[i])],
     prison_role |-> DeserializeOption(d.prison_role)]

\* ------------------------------------------------ the store's primitives
\* A filter is a sequence of [path, value] conditions, all of which must
\* hold; a path is a sequence of field names.  A path through an array field
\* reaches every element of the array; a path through a field the document
\* does not have reaches nothing.
ArrayFields == {"lawsuits", "court_rooms"}

PathValues(doc, path) ==
    IF path[1] \notin DOMAIN doc THEN {}
    ELSE IF Len(path) = 1 THEN {doc[path[1]]}
    ELSE IF path[1] \in ArrayFields
         THEN {doc[path[1]][i][path[2]] : i \in 1..Len(doc[path[1]])}
         ELSE {}

Cond(path, value) == [path |-> path, value |-> value]

Matches(doc, filter) ==
    \A i \in 1..Len(filter) : filter[i].value \in PathValues(doc, filter[i].path)

FirstMatch(coll, filter) == FindIndex({n \in 1..Len(coll) : Matches(coll[n], filter)})

\* Collection::find_one
FindOne(coll, filter) ==
    IF FirstMatch(coll, filter) = 0 THEN None ELSE Some(coll[FirstMatch(coll, filter)])

\* Collection::insert_one
InsertOne(coll, doc) == Append(coll, doc)

\* Collection::delete_one
DeleteOne(coll, filter) ==
    IF FirstMatch(coll, filter) = 0 THEN coll ELSE RemoveAt(coll, FirstMatch(coll, filter))

\* The array element the positional operator $ stands for: the first element
\* of doc[array] that satisfies the filter's conditions on that array.
PositionalIndex(doc, filter, array) ==
    FindIndex({n \in 1..Len(doc[array]) :
                 /\ \E i \in 1..Len(filter) :
                        Len(filter[i].path) = 2 /\ filter[i].path[1] = array
                 /\ \A i \in 1..Len(filter) :
                        (Len(filter[i].path) = 2 /\ filter[i].path[1] = array)
                            => doc[array][n][filter[i].path[2]] = filter[i].value})

PushTo(array, value) == [op |-> "push", path |-> <<array>>, value |-> value]
SetField(path, value) == [op |-> "set", path |-> path, value |-> value]

ApplyUpdate(doc, filter, upd) ==
    IF upd.op = "push"
    THEN [doc EXCEPT ![upd.path[1]] = Append(@, upd.value)]
    ELSE IF Len(upd.path) = 1
    THEN [doc EXCEPT ![upd.path[1]] = upd.value]
    ELSE IF PositionalIndex(doc, filter, upd.path[1]) = 0
    THEN doc
    ELSE [doc EXCEPT ![upd.path[1]][PositionalIndex(doc, filter, upd.path[1])][upd.path[3]]
                         = upd.value]

\* Collection::update_one without upsert: the first matching document is
\* updated, and nothing happens when none matches.
UpdateOne(coll, filter, upd) ==
    IF FirstMatch(coll, filter) = 0 THEN coll
    ELSE [coll EXCEPT ![FirstMatch(coll, filter)] = ApplyUpdate(@, filter, upd)]

\* --------------------------------------------------- Mongo (model.rs)
StateFilter(guild_id) == <<Cond(<<"guild_id">>, SnowflakeToBson(guild_id))>>

\* Mongo::new_state: the State that is inserted for a guild on first access.
NewState(guild_id) ==
    [guild_id |-> guild_id,
     lawsuits |-> <<>>,
     court_category |-> None,
     court_rooms |-> <<>>,
     prison_role |-> None]

\* The update_one of each helper.  Every helper first runs
\* find_or_insert_state and throws the State away; see HelperColl.
SetCourtCategory(coll, guild_id, category) ==
    UpdateOne(coll, StateFilter(guild_id),
              SetField(<<"court_category">>, Some(SnowflakeToBson(category))))

SetPrisonRole(coll, guild_id, prison_role) ==
    UpdateOne(coll, StateFilter(guild_id),
              SetField(<<"prison_role">>, Some(SnowflakeToBson(prison_role))))

AddCourtRoom(coll, guild_id, room) ==
    UpdateOne(coll, StateFilter(guild_id), PushTo("court_rooms", SerializeCourtRoom(room)))

\* add_lawsuit with $set in the place of $push: the array is replaced by the
\* one lawsuit.
AddLawsuitReplaces(coll, guild_id, lawsuit) ==
    UpdateOne(coll, StateFilter(guild_id),
              SetField(<<"lawsuits">>, <<SerializeLawsuit(lawsuit)>>))

AddLawsuit(coll, guild_id, lawsuit) ==
    UpdateOne(coll, StateFilter(guild_id), PushTo("lawsuits", SerializeLawsuit(lawsuit)))

SetCourtRoomFilter(guild_id, channel_id) ==
    StateFilter(guild_id)
        \o <<Cond(<<"court_rooms", "channel_id">>, SnowflakeToBson(channel_id))>>

SetCourtRoom(coll, guild_id, channel_id, value) ==
    UpdateOne(coll, SetCourtRoomFilter(guild_id, channel_id), value)

\* The filter names the field "lawsuit", as the source does; the State
\* document holds its lawsuits under "lawsuits".
SetLawsuitFilter(guild_id, lawsuit_id) ==
    StateFilter(guild_id) \o <<Cond(<<"lawsuit", "id">>, lawsuit_id)>>

SetLawsuit(coll, guild_id, lawsuit_id, value) ==
    UpdateOne(coll, SetLawsuitFilter(guild_id, lawsuit_id), value)

\* delete_guild emptying the lawsuits of the document instead of deleting
\* the document.
DeleteGuildKeepsDocument(coll, guild_id) ==
    UpdateOne(coll, StateFilter(guild_id), SetField(<<"lawsuits">>, <<>>))

DeleteGuild(coll, guild_id) == DeleteOne(coll, StateFilter(guild_id))

\* PrisonEntry, as serde writes and reads it.
SerializePrisonEntry(e) ==
    [guild_id |-> SerializeSnowflake(e.guild_id), user_id |-> SerializeSnowflake(e.user_id)]

DeserializePrisonEntry(d) ==
    [guild_id |-> DeserializeSnowflake(d.guild_id),
     user_id |-> DeserializeSnowflake(d.user_id)]

\* The filter of the prison collection without the guild.
PrisonFilterUserOnly(guild_id, user_id) == <<Cond(<<"user_id">>, SnowflakeToBson(user_id))>>

\* doc! { "guild_id": guild_id, "user_id": user_id }
PrisonFilter(guild_id, user_id) ==
    <<Cond(<<"guild_id">>, SnowflakeToBson(guild_id)),
      Cond(<<"user_id">>, SnowflakeToBson(user_id))>>

\* add_to_prison as an insert_one: a row is added whether or not one is there.
AddToPrisonInserts(coll, guild_id, user_id) ==
    InsertOne(coll, [guild_id |-> SnowflakeToBson(guild_id),
                     user_id |-> SnowflakeToBson(user_id)])

\* Mongo::add_to_prison: update_one with upsert and $setOnInsert.  A match
\* is left as it is; without a match the document of the filter's fields
\* and the $setOnInsert fields is inserted.
AddToPrison(coll, guild_id, user_id) ==
    IF FirstMatch(coll, PrisonFilter(guild_id, user_id)) # 0 THEN coll
    ELSE InsertOne(coll, [guild_id |-> SnowflakeToBson(guild_id),
                          user_id |-> SnowflakeToBson(user_id)])

\* Mongo::remove_from_prison
RemoveFromPrison(coll, guild_id, user_id) ==
    DeleteOne(coll, PrisonFilter(guild_id, user_id))

\* Mongo::find_prison_entry
FindPrisonEntry(coll, guild_id, user_id) ==
    IF FirstMatch(coll, PrisonFilter(guild_id, user_id)) = 0 THEN None
    ELSE Some(DeserializePrisonEntry(coll[FirstMatch(coll, PrisonFilter(guild_id, user_id))]))

\* doc! { "court_rooms.$.ongoing_lawsuit": b } and doc! { "lawsuits.$.verdict": v }
OngoingLawsuitDoc(b) == SetField(<<"court_rooms", "$", "ongoing_lawsuit">>, b)
VerdictDoc(verdict) == SetField(<<"lawsuits", "$", "verdict">>, verdict)

\* find_or_insert_state takes two round trips when the guild has no State
\* (find_one, then insert_one) and every helper adds its update_one.  A task
\* keeps its place in this protocol in db: "find", "insert" or "update".  A
\* helper discards the State it finds, so its find_one that hits is taken
\* together with the update_one that follows it.
HasState(coll, guild_id) == IsSome(FindOne(coll, StateFilter(guild_id)))

HelperColl(coll, db, guild_id, updated) ==
    CASE db = "find" -> (IF HasState(coll, guild_id) THEN updated ELSE coll)
      [] db = "insert" -> InsertOne(coll, SerializeState(NewState(guild_id)))
      [] db = "update" -> updated

HelperDb(coll, db, guild_id) ==
    CASE db = "find" -> (IF HasState(coll, guild_id) THEN "done" ELSE "insert")
      [] db = "insert" -> "update"
      [] db = "update" -> "done"

\* find_or_insert_state itself: the State it returns once db is "done".
FindOrInsertColl(coll, db, guild_id) ==
    IF db = "find" THEN coll ELSE InsertOne(coll, SerializeState(NewState(guild_id)))

FindOrInsertDb(coll, db, guild_id) ==
    IF db = "find" /\ ~HasState(coll, guild_id) THEN "insert" ELSE "done"

FindOrInsertState(coll, db, guild_id) ==
    IF db = "find"
    THEN DeserializeState(Unwrap(FindOne(coll, StateFilter(guild_id))))
    ELSE NewState(guild_id)

\* ------------------------------------------------------------- the state
VARIABLES
    stateColl,      \* the "state" collection: a sequence of State documents
    roles,          \* the guild's roles on the platform: [id, name]
    channels,       \* the guild's channels on the platform: [id, name, parent_id]
    memberRoles,    \* for each user, the roles the member holds
    messages,       \* the court messages sent: [title, channel_id, lawsuit]
    nextSnowflake,  \* the id the platform gives the next role or channel
    nextUuid,       \* the next Uuid::new()
    fg,             \* the command handlers in flight, by slot
    tails,          \* the detached setup task of each lawsuit, by lawsuit id
    acked,          \* the lawsuits whose initialize returned its acknowledgement
    started,        \* the commands and events received so far
    prisonColl,     \* the "prison" collection: a sequence of PrisonEntry documents
    members         \* the users that are members of the guild

vars ==
    <<stateColl, roles, channels, memberRoles, messages, nextSnowflake, nextUuid,
      fg, tails, acked, started, prisonColl, members>>

Slots == {1, 2}
LawsuitIds == 1..SerialCommands
TheGuild == CHOOSE g \in Guilds : TRUE

\* The arguments of /lawsuit create.
LawsuitArgs ==
    {[plaintiff |-> 11, accused |-> 12, judge |-> 13,
      plaintiff_lawyer |-> None, accused_lawyer |-> None, reason |-> "streit"],
     [plaintiff |-> 12, accused |-> 11, judge |-> 14,
      plaintiff_lawyer |-> Some(13), accused_lawyer |-> Some(15), reason |-> "laerm"]}

\* ---------------------------------------------------------- Response
EphemeralStr(text) == [kind |-> "EphemeralStr", text |-> text, arg |-> None]
Ephemeral(text, arg) == [kind |-> "Ephemeral", text |-> text, arg |-> Some(arg)]
NoPermissions == [kind |-> "NoPermissions", text |-> "du haesch kei recht fuer da!", arg |-> None]

RespNoCategory ==
    EphemeralStr("Zuerst eine Kategorie fuer die Gerichtsraeume festlegen")
RespOpened(channel_id) == Ephemeral("ha eine ufgmacht im channel <#{}>", channel_id)
RespChannelNotFound == EphemeralStr("i ha de channel fuer de prozess noed gfunde")
RespWrongCategory(room_number) ==
    Ephemeral("de channel {room_name} isch i de falsche kategorie, man eh", room_number)
RespNoActiveLawsuit == EphemeralStr("i dem channel lauft kein aktive prozess!")
RespClosed == EphemeralStr("ich han en dir abschlosse")
RespNotACategory == EphemeralStr("Das ist keine Kategorie!")
RespSet == EphemeralStr("isch gsetzt")
RespCleared == EphemeralStr("alles weg")
RespInternalError == EphemeralStr("An internal error occurred")
RespSetRoleFirst == EphemeralStr("du mosch zerst e rolle setze mit /prison set_role")
RespArrested == EphemeralStr("hani igsperrt")
RespReleased == EphemeralStr("d'freiheit wartet")

\* ------------------------------------------------------------- tasks
NoLawsuit ==
    [id |-> 0, plaintiff |-> 0, accused |-> 0, plaintiff_lawyer |-> None,
     accused_lawyer |-> None, judge |-> 0, reason |-> "", verdict |-> None,
     court_room |-> 0]

IdleTask ==
    [pc |-> "idle", db |-> "find", cmd |-> "none", user |-> 0, perm |-> FALSE,
     channel |-> 0, verdict |-> "", lawsuit |-> NoLawsuit, room |-> None,
     category |-> None, room_len |-> 0, role_id |-> None, channel_id |-> None,
     pending |-> {}, strip |-> <<>>, resp |-> None, quiet |-> FALSE,
     target |-> 0, prison_role |-> None]

NoTail == [pc |-> "none", db |-> "find", lawsuit |-> NoLawsuit, room |-> None, grants |-> <<>>]

\* A setup task that ended keeps nothing but how it ended.
EndedTail(how) == [NoTail EXCEPT !.pc = how]

\* A handler returns r: what is left is send_response.
Respond(t, r) ==
    [t EXCEPT !.pc = "respond", !.db = "find", !.resp = Some(r), !.category = None,
              !.room_len = 0, !.role_id = None, !.channel_id = None,
              !.pending = {}, !.strip = <<>>]

Busy == {s \in Slots : fg[s].pc # "idle"}

\* The setup task of lawsuit id is spawned and has not ended.
TailRunning(id) == tails[id].pc \notin {"none", "done", "failed"}

\* A command is received in the lowest free slot, while the environment env
\* lets one arrive: env.limit handlers run at a time, env.budget commands
\* arrive in all, and under env.serial a command waits for the setup tasks.
CanStart(s, env) ==
    /\ s \notin Busy
    /\ \A r \in Slots \ Busy : s <= r
    /\ Cardinality(Busy) < env.limit
    /\ started < env.budget
    /\ env.serial => \A id \in LawsuitIds : ~TailRunning(id)

Init ==
    /\ stateColl = <<>>
    /\ roles = {}
    /\ channels = {LobbyChannel}
    /\ memberRoles = [u \in Users |-> {}]
    /\ messages = {}
    /\ nextSnowflake = 61
    /\ nextUuid = 1
    /\ fg = [s \in Slots |-> IdleTask]
    /\ tails = [id \in LawsuitIds |-> NoTail]
    /\ acked = {}
    /\ started = 0
    /\ prisonColl = <<>>
    /\ members = Users

\* ------------------------------------------ /lawsuit create (initialize)
\* The room's name built from the room count instead of the count plus one.
RoomNameFromCount(room_number) == <<"gerichtsraum-">> \o SnowflakeDisplay(room_number - 1)

\* format!("gerichtsraum-{room_number}") and format!("Gerichtsprozess {room_number}")
RoomName(room_number) == <<"gerichtsraum-">> \o SnowflakeDisplay(room_number)
RoleName(room_number) == <<"Gerichtsprozess ">> \o SnowflakeDisplay(room_number)

\* The scan for a free room with the negation dropped.
FreeRoomOngoing(state) == FindIndex({n \in 1..Len(state.court_rooms) : state.court_rooms[n].ongoing_lawsuit})

\* state.court_rooms.iter().find(|r| !r.ongoing_lawsuit)
FreeRoom(state) == FindIndex({n \in 1..Len(state.court_rooms) : ~state.court_rooms[n].ongoing_lawsuit})

\* The match of initialize without its (None, None) arm: create_room is
\* called whatever the category is.
InitializeMatchWithoutCategoryArm(t, state) ==
    IF FreeRoom(state) # 0
    THEN [t EXCEPT !.pc = "open_msg", !.db = "find",
                   !.room = Some(state.court_rooms[FreeRoom(state)])]
    ELSE [t EXCEPT !.pc = "cr_guild", !.db = "find",
                   !.room_len = Len(state.court_rooms),
                   !.category = state.court_category]

\* The match of initialize with the category looked at before the free
\* room: a guild with a category gets a new room for every lawsuit.
InitializeMatchProvisionsFirst(t, state) ==
    IF IsSome(state.court_category)
    THEN [t EXCEPT !.pc = "cr_guild", !.db = "find",
                   !.room_len = Len(state.court_rooms),
                   !.category = state.court_category]
    ELSE IF FreeRoom(state) # 0
    THEN [t EXCEPT !.pc = "open_msg", !.db = "find",
                   !.room = Some(state.court_rooms[FreeRoom(state)])]
    ELSE Respond(t, RespNoCategory)

\* The match on (free_room, &state.court_category) of initialize.
InitializeMatch(t, state) ==
    IF FreeRoom(state) # 0
    THEN [t EXCEPT !.pc = "open_msg", !.db = "find",
                   !.room = Some(state.court_rooms[FreeRoom(state)])]
    ELSE IF IsSome(state.court_category)
    THEN [t EXCEPT !.pc = "cr_guild", !.db = "find",
                   !.room_len = Len(state.court_rooms),
                   !.category = state.court_category]
    ELSE Respond(t, RespNoCategory)

NewLawsuit(id, args) ==
    [id |-> id, plaintiff |-> args.plaintiff, accused |-> args.accused,
     plaintiff_lawyer |-> args.plaintiff_lawyer, accused_lawyer |-> args.accused_lawyer,
     judge |-> args.judge, reason |-> args.reason, verdict |-> None, court_room |-> 0]

StartCreate(s, env) ==
    /\ CanStart(s, env)
    /\ \E perm \in BOOLEAN, args \in LawsuitArgs :
          IF ~perm
          THEN /\ fg' = [fg EXCEPT ![s] =
                            Respond([IdleTask EXCEPT !.cmd = "create", !.perm = perm],
                                    NoPermissions)]
               /\ UNCHANGED nextUuid
          ELSE /\ nextUuid \in LawsuitIds
               /\ fg' = [fg EXCEPT ![s] =
                            [IdleTask EXCEPT !.cmd = "create", !.perm = perm,
                                             !.pc = "init_find",
                                             !.lawsuit = NewLawsuit(nextUuid, args)]]
               /\ nextUuid' = nextUuid + 1
    /\ UNCHANGED <<stateColl, roles, channels, memberRoles, messages, nextSnowflake,
                   tails, acked>>
    /\ started' = started + 1
    /\ UNCHANGED <<prisonColl, members>>

InitializeFindState(s) ==
    /\ fg[s].pc = "init_find"
    /\ stateColl' = FindOrInsertColl(stateColl, fg[s].db, TheGuild)
    /\ fg' = [fg EXCEPT ![s] =
                 IF FindOrInsertDb(stateColl, fg[s].db, TheGuild) = "insert"
                 THEN [@ EXCEPT !.db = "insert"]
                 ELSE InitializeMatch(@, FindOrInsertState(stateColl, fg[s].db, TheGuild))]
    /\ UNCHANGED <<roles, channels, memberRoles, messages, nextSnowflake, nextUuid,
                   tails, acked>>
    /\ UNCHANGED <<started, prisonColl, members>>

\* create_room without the lookup of the role by name: the role is created
\* on every attempt.
CreateRoomFetchGuildAlwaysCreates(s) ==
    /\ fg[s].pc = "cr_guild"
    /\ fg' = [fg EXCEPT ![s].pc = "cr_role"]
    /\ UNCHANGED <<stateColl, roles, channels, memberRoles, messages, nextSnowflake,
                   nextUuid, tails, acked>>
    /\ UNCHANGED <<started, prisonColl, members>>

\* to_partial_guild and guild.role_by_name(&role_name)
CreateRoomFetchGuild(s) ==
    /\ fg[s].pc = "cr_guild"
    /\ LET found == {r \in roles : r.name = RoleName(fg[s].room_len + 1)} IN
          IF found = {}
          THEN fg' = [fg EXCEPT ![s].pc = "cr_role"]
          ELSE \E r \in found :
                  fg' = [fg EXCEPT ![s].pc = "cr_channels", ![s].role_id = Some(r.id)]
    /\ UNCHANGED <<stateColl, roles, channels, memberRoles, messages, nextSnowflake,
                   nextUuid, tails, acked>>
    /\ UNCHANGED <<started, prisonColl, members>>

\* guild.create_role
CreateRoomCreateRole(s) ==
    /\ fg[s].pc = "cr_role"
    /\ roles' = roles \cup {[id |-> nextSnowflake, name |-> RoleName(fg[s].room_len + 1)]}
    /\ nextSnowflake' = nextSnowflake + 1
    /\ fg' = [fg EXCEPT ![s].pc = "cr_channels", ![s].role_id = Some(nextSnowflake)]
    /\ UNCHANGED <<stateColl, channels, memberRoles, messages, nextUuid, tails, acked>>
    /\ UNCHANGED <<started, prisonColl, members>>

\* The scan of the channels without the check of parent_id: a channel of
\* the derived name is taken over wherever it lives.
CreateRoomFetchChannelsAnyCategory(s) ==
    /\ fg[s].pc = "cr_channels"
    /\ LET found == {c \in channels : c.name = RoomName(fg[s].room_len + 1)} IN
          IF found = {}
          THEN fg' = [fg EXCEPT ![s].pc = "cr_channel"]
          ELSE \E c \in found :
                  fg' = [fg EXCEPT ![s].pc = "cr_add", ![s].channel_id = Some(c.id)]
    /\ UNCHANGED <<stateColl, roles, channels, memberRoles, messages, nextSnowflake,
                   nextUuid, tails, acked>>
    /\ UNCHANGED <<started, prisonColl, members>>

\* The scan of the channels for the name built from room_len instead of
\* room_number: it finds the channel of the room before.
CreateRoomFetchChannelsPreviousName(s) ==
    /\ fg[s].pc = "cr_channels"
    /\ LET found == {c \in channels : c.name = RoomName(fg[s].room_len)} IN
          IF found = {}
          THEN fg' = [fg EXCEPT ![s].pc = "cr_channel"]
          ELSE \E c \in found :
                  fg' = [fg EXCEPT ![s] =
                            IF c.parent_id # fg[s].category
                            THEN Respond(@, RespWrongCategory(fg[s].room_len + 1))
                            ELSE [@ EXCEPT !.pc = "cr_add", !.channel_id = Some(c.id)]]
    /\ UNCHANGED <<stateColl, roles, channels, memberRoles, messages, nextSnowflake,
                   nextUuid, tails, acked>>
    /\ UNCHANGED <<started, prisonColl, members>>

\* guild.channels and channels.values().find(|c| c.name() == room_name)
CreateRoomFetchChannels(s) ==
    /\ fg[s].pc = "cr_channels"
    /\ LET found == {c \in channels : c.name = RoomName(fg[s].room_len + 1)} IN
          IF found = {}
          THEN fg' = [fg EXCEPT ![s].pc = "cr_channel"]
          ELSE \E c \in found :
                  fg' = [fg EXCEPT ![s] =
                            IF c.parent_id # fg[s].category
                            THEN Respond(@, RespWrongCategory(fg[s].room_len + 1))
                            ELSE [@ EXCEPT !.pc = "cr_add", !.channel_id = Some(c.id)]]
    /\ UNCHANGED <<stateColl, roles, channels, memberRoles, messages, nextSnowflake,
                   nextUuid, tails, acked>>
    /\ UNCHANGED <<started, prisonColl, members>>

\* guild.create_channel
CreateRoomCreateChannel(s) ==
    /\ fg[s].pc = "cr_channel"
    /\ channels' = channels \cup {[id |-> nextSnowflake,
                                   name |-> RoomName(fg[s].room_len + 1),
                                   parent_id |-> fg[s].category]}
    /\ nextSnowflake' = nextSnowflake + 1
    /\ fg' = [fg EXCEPT ![s].pc = "cr_add", ![s].channel_id = Some(nextSnowflake)]
    /\ UNCHANGED <<stateColl, roles, memberRoles, messages, nextUuid, tails, acked>>
    /\ UNCHANGED <<started, prisonColl, members>>

\* The CourtRoom create_room builds.
NewCourtRoom(channel_id, role_id) ==
    [channel_id |-> channel_id, ongoing_lawsuit |-> FALSE, role_id |-> role_id]

\* mongo_client.add_court_room, after which create_room returns the room.
CreateRoomAddCourtRoom(s) ==
    /\ fg[s].pc = "cr_add"
    /\ LET room == NewCourtRoom(Unwrap(fg[s].channel_id), Unwrap(fg[s].role_id)) IN
          /\ stateColl' = HelperColl(stateColl, fg[s].db, TheGuild,
                                     AddCourtRoom(stateColl, TheGuild, room))
          /\ fg' = [fg EXCEPT ![s] =
                       IF HelperDb(stateColl, fg[s].db, TheGuild) = "done"
                       THEN [@ EXCEPT !.pc = "open_msg", !.db = "find", !.room = Some(room)]
                       ELSE [@ EXCEPT !.db = HelperDb(stateColl, fg[s].db, TheGuild)]]
    /\ UNCHANGED <<roles, channels, memberRoles, messages, nextSnowflake, nextUuid,
                   tails, acked>>
    /\ UNCHANGED <<started, prisonColl, members>>

\* The embed of send_process_open_message / send_process_close_message, sent
\* into the room's channel.
CourtMessage(title, room, lawsuit) ==
    [title |-> title, channel_id |-> room.channel_id, lawsuit |-> lawsuit.id]

\* The grants of setup with the plaintiff's side served before the accused's.
AssignOrderPlaintiffFirst(lawsuit) ==
    <<lawsuit.plaintiff>> \o lawsuit.plaintiff_lawyer \o <<lawsuit.accused>>
        \o lawsuit.accused_lawyer \o <<lawsuit.judge>>

\* The order in which setup grants the room's role.
AssignOrder(lawsuit) ==
    <<lawsuit.accused>> \o lawsuit.accused_lawyer \o <<lawsuit.plaintiff>>
        \o lawsuit.plaintiff_lawyer \o <<lawsuit.judge>>

\* tokio::spawn(async move { self.setup(room).await })
SpawnSetup(tl, lawsuit, room) ==
    [tl EXCEPT ![lawsuit.id] =
        [pc |-> "add_lawsuit", db |-> "find", lawsuit |-> lawsuit, room |-> Some(room),
         grants |-> AssignOrder(lawsuit)]]

\* initialize with the opening announcement left to the setup task: the
\* handler binds the room and spawns setup without sending it.
SendProcessOpenMessageInSetup(s) ==
    /\ fg[s].pc = "open_msg"
    /\ LET room == Unwrap(fg[s].room)
           lawsuit == [fg[s].lawsuit EXCEPT !.court_room = room.channel_id]
       IN /\ tails' = SpawnSetup(tails, lawsuit, room)
          /\ fg' = [fg EXCEPT ![s] = [@ EXCEPT !.pc = "init_return", !.lawsuit = lawsuit]]
    /\ UNCHANGED <<stateColl, roles, channels, memberRoles, messages, nextSnowflake,
                   nextUuid, acked, started, prisonColl, members>>

\* initialize with the result of send_process_open_message ignored: setup
\* is spawned whether or not the room's channel was found.
SendProcessOpenMessageResultIgnored(s) ==
    /\ fg[s].pc = "open_msg"
    /\ LET room == Unwrap(fg[s].room)
           lawsuit == [fg[s].lawsuit EXCEPT !.court_room = room.channel_id]
       IN /\ messages' = IF \E c \in channels : c.id = room.channel_id
                         THEN messages \cup {CourtMessage("Prozess", room, lawsuit)}
                         ELSE messages
          /\ tails' = SpawnSetup(tails, lawsuit, room)
          /\ fg' = [fg EXCEPT ![s] = [@ EXCEPT !.pc = "init_return", !.lawsuit = lawsuit]]
    /\ UNCHANGED <<stateColl, roles, channels, memberRoles, nextSnowflake, nextUuid,
                   acked, started, prisonColl, members>>

\* send_process_open_message, and what initialize does once it returned: it
\* binds the room and spawns setup.  The runtime is the multi-threaded one
\* (main.rs), so from the spawn on the setup task runs beside the handler.
SendProcessOpenMessage(s) ==
    /\ fg[s].pc = "open_msg"
    /\ LET room == Unwrap(fg[s].room)
           lawsuit == [fg[s].lawsuit EXCEPT !.court_room = room.channel_id]
       IN IF \E c \in channels : c.id = room.channel_id
          THEN /\ messages' = messages \cup {CourtMessage("Prozess", room, lawsuit)}
               /\ tails' = SpawnSetup(tails, lawsuit, room)
               /\ fg' = [fg EXCEPT ![s] = [@ EXCEPT !.pc = "init_return",
                                                    !.lawsuit = lawsuit]]
          ELSE /\ fg' = [fg EXCEPT ![s] = Respond(@, RespChannelNotFound)]
               /\ UNCHANGED <<messages, tails>>
    /\ UNCHANGED <<stateColl, roles, channels, memberRoles, nextSnowflake, nextUuid,
                   acked>>
    /\ UNCHANGED <<started, prisonColl, members>>

\* initialize returns the acknowledgement to the command handler.
InitializeReturn(s) ==
    /\ fg[s].pc = "init_return"
    /\ acked' = acked \cup {fg[s].lawsuit.id}
    /\ fg' = [fg EXCEPT ![s] = Respond(@, RespOpened(fg[s].lawsuit.court_room))]
    /\ UNCHANGED <<stateColl, roles, channels, memberRoles, messages, nextSnowflake,
                   nextUuid, tails>>
    /\ UNCHANGED <<started, prisonColl, members>>

\* ------------------------------------------------- setup, the detached tail
\* setup refusing a room that is taken: add_lawsuit is given up when the
\* State holds a lawsuit without a verdict in the same room.
SetupAddLawsuitOncePerRoom(id) ==
    /\ tails[id].pc = "add_lawsuit"
    /\ LET taken == \E d \in {stateColl[i] : i \in 1..Len(stateColl)} :
                        \E k \in 1..Len(d.lawsuits) :
                            /\ d.lawsuits[k].court_room
                                   = SnowflakeToBson(tails[id].lawsuit.court_room)
                            /\ IsNone(d.lawsuits[k].verdict)
       IN /\ stateColl' = IF taken THEN stateColl
                          ELSE HelperColl(stateColl, tails[id].db, TheGuild,
                                          AddLawsuit(stateColl, TheGuild, tails[id].lawsuit))
          /\ tails' = [tails EXCEPT ![id] =
                          IF taken THEN EndedTail("failed")
                          ELSE IF HelperDb(stateColl, tails[id].db, TheGuild) = "done"
                          THEN [@ EXCEPT !.pc = "set_court_room", !.db = "find"]
                          ELSE [@ EXCEPT !.db = HelperDb(stateColl, tails[id].db, TheGuild)]]
    /\ UNCHANGED <<roles, channels, memberRoles, messages, nextSnowflake, nextUuid,
                   fg, acked>>
    /\ UNCHANGED <<started, prisonColl, members>>

SetupAddLawsuit(id) ==
    /\ tails[id].pc = "add_lawsuit"
    /\ stateColl' = HelperColl(stateColl, tails[id].db, TheGuild,
                               AddLawsuit(stateColl, TheGuild, tails[id].lawsuit))
    /\ tails' = [tails EXCEPT ![id] =
                    IF HelperDb(stateColl, tails[id].db, TheGuild) = "done"
                    THEN [@ EXCEPT !.pc = "set_court_room", !.db = "find"]
                    ELSE [@ EXCEPT !.db = HelperDb(stateColl, tails[id].db, TheGuild)]]
    /\ UNCHANGED <<roles, channels, memberRoles, messages, nextSnowflake, nextUuid,
                   fg, acked>>
    /\ UNCHANGED <<started, prisonColl, members>>

SetupSetCourtRoom(id) ==
    /\ tails[id].pc = "set_court_room"
    /\ stateColl' = HelperColl(stateColl, tails[id].db, TheGuild,
                               SetCourtRoom(stateColl, TheGuild,
                                            Unwrap(tails[id].room).channel_id,
                                            OngoingLawsuitDoc(TRUE)))
    /\ tails' = [tails EXCEPT ![id] =
                    IF HelperDb(stateColl, tails[id].db, TheGuild) = "done"
                    THEN [@ EXCEPT !.pc = "assign_role", !.db = "find"]
                    ELSE [@ EXCEPT !.db = HelperDb(stateColl, tails[id].db, TheGuild)]]
    /\ UNCHANGED <<roles, channels, memberRoles, messages, nextSnowflake, nextUuid,
                   fg, acked>>
    /\ UNCHANGED <<started, prisonColl, members>>

\* assign_role: guild_id.member and member.add_role
AssignRole(mr, user, role_id) == [mr EXCEPT ![user] = @ \cup {role_id}]

SetupAssignRole(id) ==
    /\ tails[id].pc = "assign_role"
    /\ memberRoles' = AssignRole(memberRoles, Head(tails[id].grants),
                                 Unwrap(tails[id].room).role_id)
    /\ tails' = [tails EXCEPT ![id] =
                    IF Len(tails[id].grants) = 1 THEN EndedTail("done")
                    ELSE [@ EXCEPT !.grants = Tail(@)]]
    /\ UNCHANGED <<stateColl, roles, channels, messages, nextSnowflake, nextUuid,
                   fg, acked>>
    /\ UNCHANGED <<started, prisonColl, members>>

\* setup going on after a failed add_lawsuit: the error is dropped and the
\* task marks the room and grants the roles.
SetupFailsSkipsStep(id) ==
    /\ TailRunning(id)
    /\ tails' = [tails EXCEPT ![id] =
                    IF tails[id].pc = "add_lawsuit"
                    THEN [@ EXCEPT !.pc = "set_court_room", !.db = "find"]
                    ELSE EndedTail("failed")]
    /\ UNCHANGED <<stateColl, roles, channels, memberRoles, messages, nextSnowflake,
                   nextUuid, fg, acked>>
    /\ UNCHANGED <<started, prisonColl, members>>

\* A store or platform call of setup returns an error: the error is logged
\* and the task ends.
SetupFails(id) ==
    /\ TailRunning(id)
    /\ tails' = [tails EXCEPT ![id] = EndedTail("failed")]
    /\ UNCHANGED <<stateColl, roles, channels, memberRoles, messages, nextSnowflake,
                   nextUuid, fg, acked>>
    /\ UNCHANGED <<started, prisonColl, members>>

\* ------------------------------------------ /lawsuit close (rule_verdict)
CloseUsers == {12, 13, 14}

StartClose(s, env) ==
    /\ CanStart(s, env)
    /\ \E user \in CloseUsers, perm \in BOOLEAN, verdict \in Verdicts, c \in channels :
          fg' = [fg EXCEPT ![s] =
                    [IdleTask EXCEPT !.cmd = "close", !.pc = "close_find", !.user = user,
                                     !.perm = perm, !.verdict = verdict,
                                     !.channel = c.id]]
    /\ UNCHANGED <<stateColl, roles, channels, memberRoles, messages, nextSnowflake,
                   nextUuid, tails, acked>>
    /\ started' = started + 1
    /\ UNCHANGED <<prisonColl, members>>

\* state.lawsuits.iter().find(|l| l.court_room == room_id && l.verdict.is_none())
FindOpenLawsuit(state, room_id) ==
    FindIndex({n \in 1..Len(state.lawsuits) :
                 state.lawsuits[n].court_room = room_id /\ IsNone(state.lawsuits[n].verdict)})

\* state.court_rooms.iter().find(|r| r.channel_id == room_id)
FindCourtRoom(state, room_id) ==
    FindIndex({n \in 1..Len(state.court_rooms) : state.court_rooms[n].channel_id = room_id})

\* The check that opens rule_verdict, with the override read unnegated.
MayRuleVerdictOverrideUnnegated(lawsuit, user_id, permission_override) ==
    ~(lawsuit.judge # user_id /\ permission_override)

\* The check that opens rule_verdict.
MayRuleVerdict(lawsuit, user_id, permission_override) ==
    ~(lawsuit.judge # user_id /\ ~permission_override)

\* The try_join! of rule_verdict without its set_court_room future.
BatchOpsWithoutSetCourtRoom ==
    {[op |-> o, db |-> "find"] : o \in {"set_lawsuit", "accused", "plaintiff", "judge"}}

\* The five futures of rule_verdict's try_join!.
BatchOps ==
    {[op |-> o, db |-> "find"] :
        o \in {"set_court_room", "set_lawsuit", "accused", "plaintiff", "judge"}}

\* No setup task is running.
NoSetupRunning == \A id \in LawsuitIds : ~TailRunning(id)

\* rule_verdict up to its first await.  The field quiet is history, not
\* program state: it records whether any setup task was running when
\* rule_verdict was entered.
RuleVerdictEnter(t, lawsuit, room) ==
    IF ~MayRuleVerdict(lawsuit, t.user, t.perm)
    THEN Respond([t EXCEPT !.lawsuit = lawsuit, !.room = Some(room)], NoPermissions)
    ELSE [t EXCEPT !.pc = "batch", !.db = "find", !.room = Some(room),
                   !.lawsuit = [lawsuit EXCEPT !.verdict = Some(t.verdict)],
                   !.pending = BatchOps, !.quiet = NoSetupRunning]

\* The close arm of lawsuit_command_handler once it holds the State.
CloseMatch(t, state) ==
    IF FindOpenLawsuit(state, t.channel) = 0 \/ FindCourtRoom(state, t.channel) = 0
    THEN Respond(t, RespNoActiveLawsuit)
    ELSE RuleVerdictEnter(t, state.lawsuits[FindOpenLawsuit(state, t.channel)],
                          state.court_rooms[FindCourtRoom(state, t.channel)])

CloseFindState(s) ==
    /\ fg[s].pc = "close_find"
    /\ stateColl' = FindOrInsertColl(stateColl, fg[s].db, TheGuild)
    /\ fg' = [fg EXCEPT ![s] =
                 IF FindOrInsertDb(stateColl, fg[s].db, TheGuild) = "insert"
                 THEN [@ EXCEPT !.db = "insert"]
                 ELSE CloseMatch(@, FindOrInsertState(stateColl, fg[s].db, TheGuild))]
    /\ UNCHANGED <<roles, channels, memberRoles, messages, nextSnowflake, nextUuid,
                   tails, acked>>
    /\ UNCHANGED <<started, prisonColl, members>>

\* remove_role with the body of assign_role pasted in: it calls add_role.
RemoveRoleAddsRole(mr, user, role_id) == AssignRole(mr, user, role_id)

\* remove_role: guild_id.member and member.remove_role
RemoveRole(mr, user, role_id) == [mr EXCEPT ![user] = @ \ {role_id}]

\* rule_verdict without the two `if let Some(..lawyer)` blocks: the message
\* follows the try_join! at once.
AfterBatchWithoutLawyers(t) == [t EXCEPT !.pending = {}, !.strip = <<>>, !.pc = "close_msg"]

\* What rule_verdict does after the try_join!: the lawyers, then the message.
AfterBatch(t) ==
    [t EXCEPT !.pending = {},
              !.strip = t.lawsuit.accused_lawyer \o t.lawsuit.plaintiff_lawyer,
              !.pc = IF t.lawsuit.accused_lawyer \o t.lawsuit.plaintiff_lawyer = <<>>
                     THEN "close_msg" ELSE "lawyers"]

BatchStep(t, p, db) ==
    IF db = "done"
    THEN IF t.pending = {p} THEN AfterBatch(t) ELSE [t EXCEPT !.pending = @ \ {p}]
    ELSE [t EXCEPT !.pending = (@ \ {p}) \cup {[op |-> p.op, db |-> db]}]

\* One future of the try_join! completes a call.
RuleVerdictBatch(s) ==
    /\ fg[s].pc = "batch"
    /\ \E p \in fg[s].pending :
          LET lawsuit == fg[s].lawsuit
              room == Unwrap(fg[s].room)
          IN
          CASE p.op = "set_court_room" ->
                  /\ stateColl' = HelperColl(stateColl, p.db, TheGuild,
                                             SetCourtRoom(stateColl, TheGuild,
                                                          lawsuit.court_room,
                                                          OngoingLawsuitDoc(FALSE)))
                  /\ fg' = [fg EXCEPT ![s] =
                               BatchStep(@, p, HelperDb(stateColl, p.db, TheGuild))]
                  /\ UNCHANGED memberRoles
            [] p.op = "set_lawsuit" ->
                  /\ stateColl' = HelperColl(stateColl, p.db, TheGuild,
                                             SetLawsuit(stateColl, TheGuild, lawsuit.id,
                                                        VerdictDoc(lawsuit.verdict)))
                  /\ fg' = [fg EXCEPT ![s] =
                               BatchStep(@, p, HelperDb(stateColl, p.db, TheGuild))]
                  /\ UNCHANGED memberRoles
            [] OTHER ->
                  /\ memberRoles' = RemoveRole(memberRoles, lawsuit[p.op], room.role_id)
                  /\ fg' = [fg EXCEPT ![s] = BatchStep(@, p, "done")]
                  /\ UNCHANGED stateColl
    /\ UNCHANGED <<roles, channels, messages, nextSnowflake, nextUuid, tails, acked>>
    /\ UNCHANGED <<started, prisonColl, members>>

RuleVerdictLawyers(s) ==
    /\ fg[s].pc = "lawyers"
    /\ memberRoles' = RemoveRole(memberRoles, Head(fg[s].strip),
                                 Unwrap(fg[s].room).role_id)
    /\ fg' = [fg EXCEPT ![s] =
                 [@ EXCEPT !.strip = Tail(@),
                           !.pc = IF Len(fg[s].strip) = 1 THEN "close_msg" ELSE "lawyers"]]
    /\ UNCHANGED <<stateColl, roles, channels, messages, nextSnowflake, nextUuid,
                   tails, acked>>
    /\ UNCHANGED <<started, prisonColl, members>>

\* rule_verdict undoing its teardown when the closure announcement cannot
\* be sent: the judge is given the room's role back.
SendProcessCloseMessageRollsBack(s) ==
    /\ fg[s].pc = "close_msg"
    /\ LET room == Unwrap(fg[s].room) IN
          IF \E c \in channels : c.id = room.channel_id
          THEN /\ messages' = messages
                      \cup {CourtMessage("Prozess abgeschlossen", room, fg[s].lawsuit)}
               /\ fg' = [fg EXCEPT ![s] = Respond(@, RespClosed)]
               /\ UNCHANGED memberRoles
          ELSE /\ fg' = [fg EXCEPT ![s] = Respond(@, RespChannelNotFound)]
               /\ memberRoles' = AssignRole(memberRoles, fg[s].lawsuit.judge, room.role_id)
               /\ UNCHANGED messages
    /\ UNCHANGED <<stateColl, roles, channels, nextSnowflake, nextUuid, tails, acked>>
    /\ UNCHANGED <<started, prisonColl, members>>

\* send_process_close_message and the Ok(Ok(())) the close arm answers to.
SendProcessCloseMessage(s) ==
    /\ fg[s].pc = "close_msg"
    /\ LET room == Unwrap(fg[s].room) IN
          IF \E c \in channels : c.id = room.channel_id
          THEN /\ messages' = messages
                      \cup {CourtMessage("Prozess abgeschlossen", room, fg[s].lawsuit)}
               /\ fg' = [fg EXCEPT ![s] = Respond(@, RespClosed)]
          ELSE /\ fg' = [fg EXCEPT ![s] = Respond(@, RespChannelNotFound)]
               /\ UNCHANGED messages
    /\ UNCHANGED <<stateColl, roles, channels, memberRoles, nextSnowflake, nextUuid,
                   tails, acked>>
    /\ UNCHANGED <<started, prisonColl, members>>

\* ------------------------------------------------- /lawsuit set_category
StartSetCategory(s, env) ==
    /\ CanStart(s, env)
    /\ \E perm \in BOOLEAN, channel \in Categories \cup {LobbyChannel.id} :
          fg' = [fg EXCEPT ![s] =
                    IF ~perm
                    THEN Respond([IdleTask EXCEPT !.cmd = "set_category", !.perm = perm,
                                                  !.channel = channel],
                                 NoPermissions)
                    ELSE [IdleTask EXCEPT !.cmd = "set_category", !.perm = perm,
                                          !.channel = channel, !.pc = "sc_fetch"]]
    /\ UNCHANGED <<stateColl, roles, channels, memberRoles, messages, nextSnowflake,
                   nextUuid, tails, acked>>
    /\ started' = started + 1
    /\ UNCHANGED <<prisonColl, members>>

\* channel.id.to_channel and channel.category()
SetCategoryFetchChannel(s) ==
    /\ fg[s].pc = "sc_fetch"
    /\ fg' = [fg EXCEPT ![s] =
                 IF fg[s].channel \in Categories
                 THEN [@ EXCEPT !.pc = "sc_set", !.db = "find"]
                 ELSE Respond(@, RespNotACategory)]
    /\ UNCHANGED <<stateColl, roles, channels, memberRoles, messages, nextSnowflake,
                   nextUuid, tails, acked>>
    /\ UNCHANGED <<started, prisonColl, members>>

\* mongo_client.set_court_category
SetCategoryUpdate(s) ==
    /\ fg[s].pc = "sc_set"
    /\ stateColl' = HelperColl(stateColl, fg[s].db, TheGuild,
                               SetCourtCategory(stateColl, TheGuild, fg[s].channel))
    /\ fg' = [fg EXCEPT ![s] =
                 IF HelperDb(stateColl, fg[s].db, TheGuild) = "done"
                 THEN Respond(@, RespSet)
                 ELSE [@ EXCEPT !.db = HelperDb(stateColl, fg[s].db, TheGuild)]]
    /\ UNCHANGED <<roles, channels, memberRoles, messages, nextSnowflake, nextUuid,
                   tails, acked>>
    /\ UNCHANGED <<started, prisonColl, members>>

\* ---------------------------------------------------------- /lawsuit clear
\* The clear arm without its check of MANAGE_GUILD.
StartClearUnchecked(s, env) ==
    /\ CanStart(s, env)
    /\ \E perm \in BOOLEAN :
          fg' = [fg EXCEPT ![s] =
                    [IdleTask EXCEPT !.cmd = "clear", !.perm = perm, !.pc = "clear"]]
    /\ UNCHANGED <<stateColl, roles, channels, memberRoles, messages, nextSnowflake,
                   nextUuid, tails, acked>>
    /\ started' = started + 1
    /\ UNCHANGED <<prisonColl, members>>

StartClear(s, env) ==
    /\ CanStart(s, env)
    /\ \E perm \in BOOLEAN :
          fg' = [fg EXCEPT ![s] =
                    IF ~perm
                    THEN Respond([IdleTask EXCEPT !.cmd = "clear", !.perm = perm],
                                 NoPermissions)
                    ELSE [IdleTask EXCEPT !.cmd = "clear", !.perm = perm, !.pc = "clear"]]
    /\ UNCHANGED <<stateColl, roles, channels, memberRoles, messages, nextSnowflake,
                   nextUuid, tails, acked>>
    /\ started' = started + 1
    /\ UNCHANGED <<prisonColl, members>>

\* mongo_client.delete_guild
\* The clear arm emptying the guild's rows of the prison collection too.
ClearDeleteGuildAndPrison(s) ==
    /\ fg[s].pc = "clear"
    /\ stateColl' = DeleteGuild(stateColl, TheGuild)
    /\ prisonColl' = SelectSeq(prisonColl,
                               LAMBDA e : DeserializePrisonEntry(e).guild_id # TheGuild)
    /\ fg' = [fg EXCEPT ![s] = Respond(@, RespCleared)]
    /\ UNCHANGED <<roles, channels, memberRoles, messages, nextSnowflake, nextUuid,
                   tails, acked>>
    /\ UNCHANGED <<started, members>>

ClearDeleteGuild(s) ==
    /\ fg[s].pc = "clear"
    /\ stateColl' = DeleteGuild(stateColl, TheGuild)
    /\ fg' = [fg EXCEPT ![s] = Respond(@, RespCleared)]
    /\ UNCHANGED <<roles, channels, memberRoles, messages, nextSnowflake, nextUuid,
                   tails, acked>>
    /\ UNCHANGED <<started, prisonColl, members>>

\* ------------------------------------------------------------ /prison
\* The roles an administrator can name in /prison set_role, and the users
\* that are arrested, released, leave and join.  The roles exist on the
\* platform from the start; none of them carries the name of a court role.
PrisonRoles == {70, 71}
PrisonUsers == {12, 13}

StartSetRole(s, env) ==
    /\ CanStart(s, env)
    /\ \E perm \in BOOLEAN, role \in PrisonRoles :
          fg' = [fg EXCEPT ![s] =
                    IF ~perm
                    THEN Respond([IdleTask EXCEPT !.cmd = "set_role", !.perm = perm,
                                                  !.prison_role = Some(role)],
                                 NoPermissions)
                    ELSE [IdleTask EXCEPT !.cmd = "set_role", !.perm = perm,
                                          !.prison_role = Some(role), !.pc = "sr_set"]]
    /\ UNCHANGED <<stateColl, roles, channels, memberRoles, messages, nextSnowflake,
                   nextUuid, tails, acked>>
    /\ started' = started + 1
    /\ UNCHANGED <<prisonColl, members>>

\* mongo_client.set_prison_role
SetRoleUpdate(s) ==
    /\ fg[s].pc = "sr_set"
    /\ stateColl' = HelperColl(stateColl, fg[s].db, TheGuild,
                               SetPrisonRole(stateColl, TheGuild, Unwrap(fg[s].prison_role)))
    /\ fg' = [fg EXCEPT ![s] =
                 IF HelperDb(stateColl, fg[s].db, TheGuild) = "done"
                 THEN Respond(@, RespSet)
                 ELSE [@ EXCEPT !.db = HelperDb(stateColl, fg[s].db, TheGuild)]]
    /\ UNCHANGED <<roles, channels, memberRoles, messages, nextSnowflake, nextUuid,
                   tails, acked>>
    /\ UNCHANGED <<started, prisonColl, members>>

\* arrest and release falling back on a role of their own when the guild has
\* none configured.
PrisonMatchDefaultRole(t, state, pc) ==
    [t EXCEPT !.pc = pc, !.db = "find",
              !.prison_role = IF IsSome(state.prison_role) THEN state.prison_role
                              ELSE Some(70)]

\* The match on state.prison_role of arrest and of release.
PrisonMatch(t, state, pc) ==
    IF IsSome(state.prison_role)
    THEN [t EXCEPT !.pc = pc, !.db = "find", !.prison_role = state.prison_role]
    ELSE Respond(t, RespSetRoleFirst)

StartArrest(s, env) ==
    /\ CanStart(s, env)
    /\ \E perm \in BOOLEAN, user \in PrisonUsers :
          fg' = [fg EXCEPT ![s] =
                    IF ~perm
                    THEN Respond([IdleTask EXCEPT !.cmd = "arrest", !.perm = perm,
                                                  !.target = user],
                                 NoPermissions)
                    ELSE [IdleTask EXCEPT !.cmd = "arrest", !.perm = perm,
                                          !.target = user, !.pc = "ar_find"]]
    /\ UNCHANGED <<stateColl, roles, channels, memberRoles, messages, nextSnowflake,
                   nextUuid, tails, acked>>
    /\ started' = started + 1
    /\ UNCHANGED <<prisonColl, members>>

ArrestFindState(s) ==
    /\ fg[s].pc = "ar_find"
    /\ stateColl' = FindOrInsertColl(stateColl, fg[s].db, TheGuild)
    /\ fg' = [fg EXCEPT ![s] =
                 IF FindOrInsertDb(stateColl, fg[s].db, TheGuild) = "insert"
                 THEN [@ EXCEPT !.db = "insert"]
                 ELSE PrisonMatch(@, FindOrInsertState(stateColl, fg[s].db, TheGuild),
                                  "ar_add")]
    /\ UNCHANGED <<roles, channels, memberRoles, messages, nextSnowflake, nextUuid,
                   tails, acked>>
    /\ UNCHANGED <<started, prisonColl, members>>

\* mongo_client.add_to_prison
ArrestAddToPrison(s) ==
    /\ fg[s].pc = "ar_add"
    /\ prisonColl' = AddToPrison(prisonColl, TheGuild, fg[s].target)
    /\ fg' = [fg EXCEPT ![s].pc = "ar_role"]
    /\ UNCHANGED <<stateColl, roles, channels, memberRoles, messages, nextSnowflake,
                   nextUuid, tails, acked, started, members>>

\* arrest taking the entry back when the user turns out not to be a member.
ArrestAddRoleRollsBack(s) ==
    /\ fg[s].pc = "ar_role"
    /\ IF fg[s].target \in members
       THEN /\ memberRoles' = AssignRole(memberRoles, fg[s].target,
                                         Unwrap(fg[s].prison_role))
            /\ fg' = [fg EXCEPT ![s] = Respond(@, RespArrested)]
            /\ UNCHANGED prisonColl
       ELSE /\ fg' = [fg EXCEPT ![s] = Respond(@, RespInternalError)]
            /\ prisonColl' = RemoveFromPrison(prisonColl, TheGuild, fg[s].target)
            /\ UNCHANGED memberRoles
    /\ UNCHANGED <<stateColl, roles, channels, messages, nextSnowflake, nextUuid,
                   tails, acked, started, members>>

\* guild_id.member(user.id), which fails for a user who is not a member of
\* the guild, and member.add_role(role)
ArrestAddRole(s) ==
    /\ fg[s].pc = "ar_role"
    /\ IF fg[s].target \in members
       THEN /\ memberRoles' = AssignRole(memberRoles, fg[s].target,
                                         Unwrap(fg[s].prison_role))
            /\ fg' = [fg EXCEPT ![s] = Respond(@, RespArrested)]
       ELSE /\ fg' = [fg EXCEPT ![s] = Respond(@, RespInternalError)]
            /\ UNCHANGED memberRoles
    /\ UNCHANGED <<stateColl, roles, channels, messages, nextSnowflake, nextUuid,
                   tails, acked, started, prisonColl, members>>

StartRelease(s, env) ==
    /\ CanStart(s, env)
    /\ \E perm \in BOOLEAN, user \in PrisonUsers :
          fg' = [fg EXCEPT ![s] =
                    IF ~perm
                    THEN Respond([IdleTask EXCEPT !.cmd = "release", !.perm = perm,
                                                  !.target = user],
                                 NoPermissions)
                    ELSE [IdleTask EXCEPT !.cmd = "release", !.perm = perm,
                                          !.target = user, !.pc = "rl_find"]]
    /\ UNCHANGED <<stateColl, roles, channels, memberRoles, messages, nextSnowflake,
                   nextUuid, tails, acked>>
    /\ started' = started + 1
    /\ UNCHANGED <<prisonColl, members>>

ReleaseFindState(s) ==
    /\ fg[s].pc = "rl_find"
    /\ stateColl' = FindOrInsertColl(stateColl, fg[s].db, TheGuild)
    /\ fg' = [fg EXCEPT ![s] =
                 IF FindOrInsertDb(stateColl, fg[s].db, TheGuild) = "insert"
                 THEN [@ EXCEPT !.db = "insert"]
                 ELSE PrisonMatch(@, FindOrInsertState(stateColl, fg[s].db, TheGuild),
                                  "rl_remove")]
    /\ UNCHANGED <<roles, channels, memberRoles, messages, nextSnowflake, nextUuid,
                   tails, acked>>
    /\ UNCHANGED <<started, prisonColl, members>>

\* mongo_client.remove_from_prison
ReleaseRemoveFromPrison(s) ==
    /\ fg[s].pc = "rl_remove"
    /\ prisonColl' = RemoveFromPrison(prisonColl, TheGuild, fg[s].target)
    /\ fg' = [fg EXCEPT ![s].pc = "rl_role"]
    /\ UNCHANGED <<stateColl, roles, channels, memberRoles, messages, nextSnowflake,
                   nextUuid, tails, acked, started, members>>

\* release without its platform call: the entry is deleted and the member
\* keeps the role.
ReleaseRemoveRoleSkipped(s) ==
    /\ fg[s].pc = "rl_role"
    /\ fg' = [fg EXCEPT ![s] = Respond(@, IF fg[s].target \in members THEN RespReleased
                                          ELSE RespInternalError)]
    /\ UNCHANGED <<stateColl, roles, channels, memberRoles, messages, nextSnowflake,
                   nextUuid, tails, acked, started, prisonColl, members>>

\* guild_id.member(user.id) and member.remove_role(role)
ReleaseRemoveRole(s) ==
    /\ fg[s].pc = "rl_role"
    /\ IF fg[s].target \in members
       THEN /\ memberRoles' = RemoveRole(memberRoles, fg[s].target,
                                         Unwrap(fg[s].prison_role))
            /\ fg' = [fg EXCEPT ![s] = Respond(@, RespReleased)]
       ELSE /\ fg' = [fg EXCEPT ![s] = Respond(@, RespInternalError)]
            /\ UNCHANGED memberRoles
    /\ UNCHANGED <<stateColl, roles, channels, messages, nextSnowflake, nextUuid,
                   tails, acked, started, prisonColl, members>>

\* ------------------------------------------- guild_member_addition
\* A user joins the guild, with no roles, and the event is handed to
\* handle_guild_member_join.
MemberJoins(s, env) ==
    /\ CanStart(s, env)
    /\ \E user \in PrisonUsers \ members :
          /\ members' = members \cup {user}
          /\ fg' = [fg EXCEPT ![s] =
                       [IdleTask EXCEPT !.cmd = "join", !.target = user,
                                        !.pc = "join_find"]]
    /\ UNCHANGED <<stateColl, roles, channels, memberRoles, messages, nextSnowflake,
                   nextUuid, tails, acked, prisonColl>>
    /\ started' = started + 1

\* A member leaves the guild and with that loses every role.
MemberLeaves ==
    /\ \E user \in PrisonUsers \cap members :
          /\ members' = members \ {user}
          /\ memberRoles' = [memberRoles EXCEPT ![user] = {}]
    /\ UNCHANGED <<stateColl, roles, channels, messages, nextSnowflake, nextUuid,
                   fg, tails, acked, started, prisonColl>>

\* find_or_insert_state and `if let Some(role_id) = state.prison_role`
JoinFindState(s) ==
    /\ fg[s].pc = "join_find"
    /\ stateColl' = FindOrInsertColl(stateColl, fg[s].db, TheGuild)
    /\ fg' = [fg EXCEPT ![s] =
                 IF FindOrInsertDb(stateColl, fg[s].db, TheGuild) = "insert"
                 THEN [@ EXCEPT !.db = "insert"]
                 ELSE IF IsSome(FindOrInsertState(stateColl, fg[s].db,
                                                  TheGuild).prison_role)
                 THEN [@ EXCEPT !.pc = "join_entry", !.db = "find",
                                !.prison_role =
                                    FindOrInsertState(stateColl, fg[s].db,
                                                      TheGuild).prison_role]
                 ELSE IdleTask]
    /\ UNCHANGED <<roles, channels, memberRoles, messages, nextSnowflake, nextUuid,
                   tails, acked>>
    /\ UNCHANGED <<started, prisonColl, members>>

\* The lookup of the entry with is_some read as is_none.
JoinFindPrisonEntryNegated(s) ==
    /\ fg[s].pc = "join_entry"
    /\ fg' = [fg EXCEPT ![s] =
                 IF IsNone(FindPrisonEntry(prisonColl, TheGuild, fg[s].target))
                 THEN [@ EXCEPT !.pc = "join_role"]
                 ELSE IdleTask]
    /\ UNCHANGED <<stateColl, roles, channels, memberRoles, messages, nextSnowflake,
                   nextUuid, tails, acked, started, prisonColl, members>>

\* mongo.find_prison_entry(guild_id, user_id).is_some()
JoinFindPrisonEntry(s) ==
    /\ fg[s].pc = "join_entry"
    /\ fg' = [fg EXCEPT ![s] =
                 IF IsSome(FindPrisonEntry(prisonColl, TheGuild, fg[s].target))
                 THEN [@ EXCEPT !.pc = "join_role"]
                 ELSE IdleTask]
    /\ UNCHANGED <<stateColl, roles, channels, memberRoles, messages, nextSnowflake,
                   nextUuid, tails, acked, started, prisonColl, members>>

\* member.add_role(role_id), which fails when the user has left again; the
\* error is logged by guild_member_addition.
JoinAddRole(s) ==
    /\ fg[s].pc = "join_role"
    /\ memberRoles' = IF fg[s].target \in members
                      THEN AssignRole(memberRoles, fg[s].target,
                                      Unwrap(fg[s].prison_role))
                      ELSE memberRoles
    /\ fg' = [fg EXCEPT ![s] = IdleTask]
    /\ UNCHANGED <<stateColl, roles, channels, messages, nextSnowflake, nextUuid,
                   tails, acked, started, prisonColl, members>>

\* ------------------------------------- handle_interaction, send_response
\* The errors with the `?` after the try_join! dropped: a failed batch is
\* taken for a completed one and rule_verdict goes on.
HandlerFailsBatchSwallowed(s) ==
    /\ fg[s].pc \notin {"idle", "init_return", "respond"}
    /\ fg' = [fg EXCEPT ![s] = IF fg[s].pc = "batch" THEN AfterBatch(@)
                               ELSE IF fg[s].cmd = "join" THEN IdleTask
                               ELSE Respond(@, RespInternalError)]
    /\ UNCHANGED <<stateColl, roles, channels, memberRoles, messages, nextSnowflake,
                   nextUuid, tails, acked>>
    /\ UNCHANGED <<started, prisonColl, members>>

\* handle_interaction answering with the place of the error: the reply names
\* the call that failed.
HandlerFailsWithDetail(s) ==
    /\ fg[s].pc \notin {"idle", "init_return", "respond"}
    /\ fg' = [fg EXCEPT ![s] = IF fg[s].cmd = "join" THEN IdleTask
                               ELSE Respond(@, Ephemeral("An internal error occurred: {}",
                                                         fg[s].pc))]
    /\ UNCHANGED <<stateColl, roles, channels, memberRoles, messages, nextSnowflake,
                   nextUuid, tails, acked>>
    /\ UNCHANGED <<started, prisonColl, members>>

\* A store or platform call of a command handler returns an error: it
\* propagates to handle_interaction, which answers with the generic text.
\* An error of handle_guild_member_join is logged and answered to nobody.
HandlerFails(s) ==
    /\ fg[s].pc \notin {"idle", "init_return", "respond"}
    /\ fg' = [fg EXCEPT ![s] = IF fg[s].cmd = "join" THEN IdleTask
                               ELSE Respond(@, RespInternalError)]
    /\ UNCHANGED <<stateColl, roles, channels, memberRoles, messages, nextSnowflake,
                   nextUuid, tails, acked>>
    /\ UNCHANGED <<started, prisonColl, members>>

\* send_response: the reply is sent, or sending fails and the error is
\* logged; either way the handler is over and keeps nothing.
SendResponse(s) ==
    /\ fg[s].pc = "respond"
    /\ fg' = [fg EXCEPT ![s] = IdleTask]
    /\ UNCHANGED <<stateColl, roles, channels, memberRoles, messages, nextSnowflake,
                   nextUuid, tails, acked>>
    /\ UNCHANGED <<started, prisonColl, members>>

\* --------------------------------------------------------- the platform
\* Someone deletes a court channel on the platform.  The bot is not told:
\* send_court_message finds out when channels.get returns None.
DeleteChannelOutOfBand ==
    /\ \E c \in channels \ {LobbyChannel} : channels' = channels \ {c}
    /\ UNCHANGED <<stateColl, roles, memberRoles, messages, nextSnowflake, nextUuid,
                   fg, tails, acked, started, prisonColl, members>>

\* ------------------------------------------------------ specifications
\* The handlers of create, set_category and clear.
Intake(s, env) ==
    \/ StartCreate(s, env)
    \/ InitializeFindState(s)
    \/ CreateRoomFetchGuild(s)
    \/ CreateRoomCreateRole(s)
    \/ CreateRoomFetchChannels(s)
    \/ CreateRoomCreateChannel(s)
    \/ CreateRoomAddCourtRoom(s)
    \/ SendProcessOpenMessage(s)
    \/ InitializeReturn(s)
    \/ StartSetCategory(s, env)
    \/ SetCategoryFetchChannel(s)
    \/ SetCategoryUpdate(s)
    \/ StartClear(s, env)
    \/ ClearDeleteGuild(s)
    \/ SendResponse(s)

\* The handler of close.
Closing(s, env) ==
    \/ StartClose(s, env)
    \/ CloseFindState(s)
    \/ RuleVerdictBatch(s)
    \/ RuleVerdictLawyers(s)
    \/ SendProcessCloseMessage(s)

Handler(s, env) == Intake(s, env) \/ Closing(s, env)

Setup(id) ==
    \/ SetupAddLawsuit(id)
    \/ SetupSetCourtRoom(id)
    \/ SetupAssignRole(id)

\* A call to the store or to the platform returns an error.
Fails ==
    \/ \E s \in Slots : HandlerFails(s)
    \/ \E id \in LawsuitIds : SetupFails(id)

\* The environment of the general runs: one command is handled at a time.
SpecEnv == [limit |-> 1, budget |-> MaxCommands, serial |-> FALSE]

\* Commands arrive one after the other; the detached setup tasks run beside
\* them.
Next ==
    \/ \E s \in Slots : Handler(s, SpecEnv)
    \/ \E id \in LawsuitIds : Setup(id)
    \/ Fails

Spec == Init /\ [][Next]_vars

\* The runs of a guild whose members send a command only once the setup task
\* of the lawsuit created before it has ended, and in which every call to the
\* store and to the platform succeeds.
SerialEnv == [limit |-> 1, budget |-> SerialCommands, serial |-> TRUE]

NextSerial ==
    \/ \E s \in Slots : Handler(s, SerialEnv)
    \/ \E id \in LawsuitIds : Setup(id)

SpecSerial == Init /\ [][NextSerial]_vars

\* The runs in which two commands are handled at a time: every command is
\* handled by a task of its own, and nothing keeps two of them apart.  These
\* runs hold the commands that allocate rooms and that reset the guild, up
\* to the point where the first setup task is scheduled.
IntakeEnv == [limit |-> 2, budget |-> SerialCommands, serial |-> FALSE]

NextIntake ==
    \/ \E s \in Slots : Intake(s, IntakeEnv)

SpecIntake == Init /\ [][NextIntake]_vars

\* The general runs without failing calls, in a guild whose court channels
\* can be deleted on the platform at any time.
NextOutOfBand ==
    \/ \E s \in Slots : Handler(s, SpecEnv)
    \/ \E id \in LawsuitIds : Setup(id)
    \/ DeleteChannelOutOfBand

SpecOutOfBand == Init /\ [][NextOutOfBand]_vars

\* The handlers of the prison commands and of the member-joined event.
Prison(s, env) ==
    \/ StartSetRole(s, env)
    \/ SetRoleUpdate(s)
    \/ StartArrest(s, env)
    \/ ArrestFindState(s)
    \/ ArrestAddToPrison(s)
    \/ ArrestAddRole(s)
    \/ StartRelease(s, env)
    \/ ReleaseFindState(s)
    \/ ReleaseRemoveFromPrison(s)
    \/ ReleaseRemoveRole(s)
    \/ MemberJoins(s, env)
    \/ JoinFindState(s)
    \/ JoinFindPrisonEntry(s)
    \/ JoinAddRole(s)
    \/ SendResponse(s)

\* A row of the prison collection that belongs to another guild the bot
\* serves.
ForeignEntry == [guild_id |-> 41, user_id |-> 12]

\* The prison collection is shared by the guilds: the guild is observed from
\* a moment at which the collection may hold a row of another guild.
InitPrison ==
    /\ stateColl = <<>>
    /\ roles = {}
    /\ channels = {LobbyChannel}
    /\ memberRoles = [u \in Users |-> {}]
    /\ messages = {}
    /\ nextSnowflake = 61
    /\ nextUuid = 1
    /\ fg = [s \in Slots |-> IdleTask]
    /\ tails = [id \in LawsuitIds |-> NoTail]
    /\ acked = {}
    /\ started = 0
    /\ prisonColl \in {<<>>, <<SerializePrisonEntry(ForeignEntry)>>}
    /\ members = Users

\* The prison commands and the joins of a guild, two handled at a time, with
\* members leaving in between.
PrisonEnv == [limit |-> 2, budget |-> SerialCommands, serial |-> FALSE]

NextPrison ==
    \/ \E s \in Slots : Prison(s, PrisonEnv)
    \/ MemberLeaves

SpecPrison == InitPrison /\ [][NextPrison]_vars

\* The prison commands and the joins of a guild handled one at a time, with
\* members leaving in between and with calls that return an error.
PrisonSerialEnv == [limit |-> 1, budget |-> SerialCommands, serial |-> FALSE]

NextPrisonSerial ==
    \/ \E s \in Slots : Prison(s, PrisonSerialEnv)
    \/ MemberLeaves
    \/ \E s \in Slots : HandlerFails(s)

SpecPrisonSerial == InitPrison /\ [][NextPrisonSerial]_vars

\* The handler of create.
Creating(s, env) ==
    \/ StartCreate(s, env)
    \/ InitializeFindState(s)
    \/ CreateRoomFetchGuild(s)
    \/ CreateRoomCreateRole(s)
    \/ CreateRoomFetchChannels(s)
    \/ CreateRoomCreateChannel(s)
    \/ CreateRoomAddCourtRoom(s)
    \/ SendProcessOpenMessage(s)
    \/ InitializeReturn(s)
    \/ SendResponse(s)

\* The court room a first create stores, with the role and the channel the
\* platform made for it.
FirstRoom == NewCourtRoom(62, 61)

\* A guild with one idle court room: category 50 was set, a first create
\* made room 1 and was acknowledged, and its setup task failed at
\* add_lawsuit, so that the room is stored and not ongoing.  The guild is
\* observed when two commands of the run are still to arrive.
InitIdleRoom ==
    /\ stateColl = <<SerializeState([NewState(TheGuild) EXCEPT
                                         !.court_category = Some(50),
                                         !.court_rooms = <<FirstRoom>>])>>
    /\ roles = {[id |-> 61, name |-> RoleName(1)]}
    /\ channels = {LobbyChannel,
                   [id |-> 62, name |-> RoomName(1), parent_id |-> Some(50)]}
    /\ memberRoles = [u \in Users |-> {}]
    /\ messages = {[title |-> "Prozess", channel_id |-> 62, lawsuit |-> 1]}
    /\ nextSnowflake = 63
    /\ nextUuid = 2
    /\ fg = [s \in Slots |-> IdleTask]
    /\ tails = [id \in LawsuitIds |-> IF id = 1 THEN EndedTail("failed") ELSE NoTail]
    /\ acked = {1}
    /\ started = SerialCommands - 2
    /\ prisonColl = <<>>
    /\ members = Users

\* Creates handled two at a time, with their setup tasks running beside
\* them, in a guild in which every call succeeds.
NextCreating ==
    \/ \E s \in Slots : Creating(s, IntakeEnv)
    \/ \E id \in LawsuitIds : Setup(id)

SpecCreating == InitIdleRoom /\ [][NextCreating]_vars

\* A guild whose one court room has been used and freed: category 50 was
\* set, a create opened lawsuit 1 in room 1, its setup task ran to its end,
\* and the judge closed the lawsuit.  set_lawsuit matched no document, so the
\* stored lawsuit has no verdict.  The guild is observed when two commands of
\* the run are still to arrive.
InitClosedRoom ==
    \E args \in LawsuitArgs :
        /\ stateColl = <<SerializeState([NewState(TheGuild) EXCEPT
                             !.court_category = Some(50),
                             !.court_rooms = <<FirstRoom>>,
                             !.lawsuits = <<[NewLawsuit(1, args) EXCEPT
                                                !.court_room = 62]>>])>>
        /\ roles = {[id |-> 61, name |-> RoleName(1)]}
        /\ channels = {LobbyChannel,
                       [id |-> 62, name |-> RoomName(1), parent_id |-> Some(50)]}
        /\ memberRoles = [u \in Users |-> {}]
        /\ messages = {[title |-> "Prozess", channel_id |-> 62, lawsuit |-> 1],
                       [title |-> "Prozess abgeschlossen", channel_id |-> 62,
                        lawsuit |-> 1]}
        /\ nextSnowflake = 63
        /\ nextUuid = 2
        /\ fg = [s \in Slots |-> IdleTask]
        /\ tails = [id \in LawsuitIds |-> IF id = 1 THEN EndedTail("done") ELSE NoTail]
        /\ acked = {1}
        /\ started = SerialCommands - 2
        /\ prisonColl = <<>>
        /\ members = Users

\* Creates and closes handled one at a time, each after the setup task of the
\* lawsuit created before it has ended, in a guild in which every call
\* succeeds.
NextReuse ==
    \/ \E s \in Slots : Creating(s, SerialEnv)
    \/ \E s \in Slots : Closing(s, SerialEnv)
    \/ \E id \in LawsuitIds : Setup(id)

SpecReuse == InitClosedRoom /\ [][NextReuse]_vars

\* A guild whose one court room is taken: category 50 was set, a create
\* opened lawsuit 1 in room 1 and its setup task ran to its end.  The guild
\* is observed when two commands of the run are still to arrive.
InitOngoingRoom ==
    /\ stateColl = <<SerializeState([NewState(TheGuild) EXCEPT
                         !.court_category = Some(50),
                         !.court_rooms = <<[FirstRoom EXCEPT !.ongoing_lawsuit = TRUE]>>,
                         !.lawsuits = <<[NewLawsuit(1, CHOOSE a \in LawsuitArgs :
                                                           a.judge = 13)
                                            EXCEPT !.court_room = 62]>>])>>
    /\ roles = {[id |-> 61, name |-> RoleName(1)]}
    /\ channels = {LobbyChannel,
                   [id |-> 62, name |-> RoomName(1), parent_id |-> Some(50)]}
    /\ memberRoles = [u \in Users |-> IF u \in {11, 12, 13} THEN {61} ELSE {}]
    /\ messages = {[title |-> "Prozess", channel_id |-> 62, lawsuit |-> 1]}
    /\ nextSnowflake = 63
    /\ nextUuid = 2
    /\ fg = [s \in Slots |-> IdleTask]
    /\ tails = [id \in LawsuitIds |-> IF id = 1 THEN EndedTail("done") ELSE NoTail]
    /\ acked = {1}
    /\ started = SerialCommands - 2
    /\ prisonColl = <<>>
    /\ members = Users

\* Creates handled two at a time, with their setup tasks running beside
\* them, in a guild whose one room is taken.
SpecProvisioning == InitOngoingRoom /\ [][NextCreating]_vars

\* A guild with two idle court rooms: category 50 was set, a create opened
\* lawsuit 1 in room 1 and its setup task ran to its end, a second create
\* made room 2 and failed on a platform error before its announcement was
\* sent, and the judge closed lawsuit 1.  The id the failed create drew for
\* its lawsuit appears nowhere in the guild, and the ids are fresh uuids: the
\* creates to come draw theirs from 2 on.  The guild is observed when three
\* commands of the run are still to arrive.
InitTwoIdleRooms ==
    /\ stateColl = <<SerializeState([NewState(TheGuild) EXCEPT
                         !.court_category = Some(50),
                         !.court_rooms = <<FirstRoom, NewCourtRoom(64, 63)>>,
                         !.lawsuits = <<[NewLawsuit(1, CHOOSE a \in LawsuitArgs :
                                                           a.judge = 13)
                                            EXCEPT !.court_room = 62]>>])>>
    /\ roles = {[id |-> 61, name |-> RoleName(1)], [id |-> 63, name |-> RoleName(2)]}
    /\ channels = {LobbyChannel,
                   [id |-> 62, name |-> RoomName(1), parent_id |-> Some(50)],
                   [id |-> 64, name |-> RoomName(2), parent_id |-> Some(50)]}
    /\ memberRoles = [u \in Users |-> {}]
    /\ messages = {[title |-> "Prozess", channel_id |-> 62, lawsuit |-> 1],
                   [title |-> "Prozess abgeschlossen", channel_id |-> 62,
                    lawsuit |-> 1]}
    /\ nextSnowflake = 65
    /\ nextUuid = 2
    /\ fg = [s \in Slots |-> IdleTask]
    /\ tails = [id \in LawsuitIds |-> IF id = 1 THEN EndedTail("done") ELSE NoTail]
    /\ acked = {1}
    /\ started = MaxCommands - 3
    /\ prisonColl = <<>>
    /\ members = Users

\* Creates handled one at a time, with their setup tasks running beside
\* them, in a guild whose court channels can be deleted on the platform at
\* any time.
NextTwoRooms ==
    \/ \E s \in Slots : Creating(s, SpecEnv)
    \/ \E id \in LawsuitIds : Setup(id)
    \/ DeleteChannelOutOfBand

SpecTwoRooms == InitTwoIdleRooms /\ [][NextTwoRooms]_vars

\* A guild with a member in prison: role 70 was set as the punitive role and
\* member 12 was arrested.  The guild is observed when three commands of the
\* run are still to arrive.
InitArrested ==
    /\ stateColl = <<SerializeState([NewState(TheGuild) EXCEPT !.prison_role = Some(70)])>>
    /\ roles = {}
    /\ channels = {LobbyChannel}
    /\ memberRoles = [u \in Users |-> IF u = 12 THEN {70} ELSE {}]
    /\ messages = {}
    /\ nextSnowflake = 61
    /\ nextUuid = 1
    /\ fg = [s \in Slots |-> IdleTask]
    /\ tails = [id \in LawsuitIds |-> NoTail]
    /\ acked = {}
    /\ started = MaxCommands - 3
    /\ prisonColl = <<SerializePrisonEntry([guild_id |-> TheGuild, user_id |-> 12])>>
    /\ members = Users

\* The commands of both command groups and the joins of a guild, handled one
\* at a time, with the setup tasks running beside them and members leaving
\* in between.
NextGuild ==
    \/ \E s \in Slots : Handler(s, SpecEnv)
    \/ \E s \in Slots : Prison(s, SpecEnv)
    \/ \E id \in LawsuitIds : Setup(id)
    \/ MemberLeaves

SpecGuild == InitArrested /\ [][NextGuild]_vars

\* ------------------------------------------------------------ the claims
\* The State of the guild as find_one would return it now, and the empty
\* State when the guild has none.
Stored ==
    IF HasState(stateColl, TheGuild)
    THEN DeserializeState(Unwrap(FindOne(stateColl, StateFilter(TheGuild))))
    ELSE NewState(TheGuild)

\* The handler in slot s is about to read the State for a close that
\* rule_verdict will refuse: the channel holds an open lawsuit, the requester
\* is not its judge and permission_override is false.
CloseIsRefused(s) ==
    /\ fg[s].pc = "close_find"
    /\ HasState(stateColl, TheGuild)
    /\ FindOpenLawsuit(Stored, fg[s].channel) # 0
    /\ FindCourtRoom(Stored, fg[s].channel) # 0
    /\ Stored.lawsuits[FindOpenLawsuit(Stored, fg[s].channel)].judge # fg[s].user
    /\ ~fg[s].perm

\* C1: for a requester that is not the judge and has no permission override,
\* rule_verdict returns NoPermissions and changes nothing: the State document
\* (so the lawsuit's verdict and the room's ongoing flag), every member's
\* roles and the messages sent are what they were.
C1_RefusedCloseChangesNothing ==
    [][\A s \in Slots :
          (CloseIsRefused(s) /\ CloseFindState(s))
              => /\ fg'[s].pc = "respond"
                 /\ fg'[s].resp = Some(NoPermissions)
                 /\ stateColl' = stateColl
                 /\ memberRoles' = memberRoles
                 /\ messages' = messages]_vars

\* A close was refused for a requester that is neither judge nor privileged.
C1_Witness ==
    \E s \in Slots :
        /\ fg[s].cmd = "close" /\ fg[s].pc = "respond"
        /\ fg[s].resp = Some(NoPermissions)
        /\ fg[s].lawsuit.id # 0
        /\ fg[s].lawsuit.judge # fg[s].user /\ ~fg[s].perm

\* The lawsuits of state that are bound to the room channel_id and have no
\* verdict, and the court rooms of state with that channel.
OpenLawsuitsIn(state, channel_id) ==
    {i \in 1..Len(state.lawsuits) :
        state.lawsuits[i].court_room = channel_id /\ IsNone(state.lawsuits[i].verdict)}

RoomsIn(state, channel_id) ==
    {i \in 1..Len(state.court_rooms) : state.court_rooms[i].channel_id = channel_id}

\* rule_verdict has returned Ok to the judge who asked for the close: every
\* call it made succeeded.
ClosedByJudge(s) ==
    /\ fg[s].cmd = "close" /\ fg[s].pc = "respond"
    /\ fg[s].resp = Some(RespClosed)
    /\ fg[s].user = fg[s].lawsuit.judge

\* C2: when the judge has closed a lawsuit with verdict v and every call
\* succeeded, the lawsuit stored in the guild's State has verdict v.
C2_VerdictPersisted ==
    \A s \in Slots :
        ClosedByJudge(s)
            => \E i \in 1..Len(Stored.lawsuits) :
                  /\ Stored.lawsuits[i].id = fg[s].lawsuit.id
                  /\ Stored.lawsuits[i].verdict = Some(fg[s].verdict)

\* The room of the lawsuit closed in slot s is stored idle, and the accused,
\* the plaintiff and the judge do not hold its role.
RoomFreed(s) ==
    /\ RoomsIn(Stored, fg[s].lawsuit.court_room) # {}
    /\ \A i \in RoomsIn(Stored, fg[s].lawsuit.court_room) :
          ~Stored.court_rooms[i].ongoing_lawsuit
    /\ \A u \in {fg[s].lawsuit.accused, fg[s].lawsuit.plaintiff, fg[s].lawsuit.judge} :
          Unwrap(fg[s].room).role_id \notin memberRoles[u]

\* C3 as stated: once rule_verdict has returned Ok to the judge, the room is
\* stored with ongoing_lawsuit = false and accused, plaintiff and judge do
\* not hold the room's role.
C3_ClosedRoomFreed == \A s \in Slots : ClosedByJudge(s) => RoomFreed(s)

\* C3, amended: the same, for a close that was entered while no setup task
\* was running.
C3_QuietClosedRoomFreed ==
    \A s \in Slots : (ClosedByJudge(s) /\ fg[s].quiet) => RoomFreed(s)

\* The judge closed a lawsuit while no setup task was running.
C3_Witness == \E s \in Slots : ClosedByJudge(s) /\ fg[s].quiet

\* C4: in every stored State, each court room is referenced by at most one
\* lawsuit without a verdict.
C4_AtMostOneOpenLawsuitPerRoom ==
    \A i \in 1..Len(Stored.court_rooms) :
        Cardinality(OpenLawsuitsIn(Stored, Stored.court_rooms[i].channel_id)) <= 1

\* No command handler and no setup task is in flight.
Quiescent == Busy = {} /\ NoSetupRunning

\* C5: in every quiescent stored State, a room is ongoing exactly when one
\* lawsuit without a verdict references it.
C5_OngoingIffOneOpenLawsuit ==
    Quiescent
        => \A i \in 1..Len(Stored.court_rooms) :
              Stored.court_rooms[i].ongoing_lawsuit
                  <=> Cardinality(OpenLawsuitsIn(Stored,
                                                 Stored.court_rooms[i].channel_id)) = 1

\* C6: when the setup task of a lawsuit has granted its last role, exactly
\* one stored CourtRoom is ongoing with the channel the lawsuit is bound to,
\* and exactly one lawsuit without a verdict references that room.
C6_AfterInitializeOneRoomOneLawsuit ==
    [][\A id \in LawsuitIds :
          (tails[id].pc = "assign_role" /\ tails'[id].pc = "done")
              => /\ Cardinality({i \in RoomsIn(Stored', tails[id].lawsuit.court_room) :
                                     Stored'.court_rooms[i].ongoing_lawsuit}) = 1
                 /\ Cardinality(OpenLawsuitsIn(Stored', tails[id].lawsuit.court_room))
                        = 1]_vars

\* A setup task has written to the store or granted a role.
HasPersisted(id) == tails[id].pc \in {"set_court_room", "assign_role", "done"}

C8_IdleRoomIsReused ==
    [][\A s \in Slots :
          (/\ InitializeFindState(s)
           /\ fg[s].db = "find"
           /\ HasState(stateColl, TheGuild)
           /\ \E i \in 1..Len(Stored.court_rooms) :
                  ~Stored.court_rooms[i].ongoing_lawsuit)
              => /\ fg'[s].pc = "open_msg"
                 /\ \E i \in 1..Len(Stored.court_rooms) :
                        /\ ~Stored.court_rooms[i].ongoing_lawsuit
                        /\ \A j \in 1..(i - 1) : Stored.court_rooms[j].ongoing_lawsuit
                        /\ fg'[s].room = Some(Stored.court_rooms[i])
                 /\ roles' = roles
                 /\ channels' = channels
                 /\ Stored'.court_rooms = Stored.court_rooms
                 /\ InitializeMatch(fg[s], Stored').room = fg'[s].room]_vars

\* A create was given an idle room of the State: it went on to the opening
\* announcement without passing through create_room.
C8_Witness ==
    \E s \in Slots :
        /\ fg[s].cmd = "create" /\ fg[s].pc = "open_msg"
        /\ IsNone(fg[s].role_id)
        /\ IsSome(fg[s].room)

\* initialize in slot s receives the State from find_or_insert_state in this
\* step, and the State has no court_category.
ReadsStateWithoutCategory(s) ==
    /\ InitializeFindState(s)
    /\ FindOrInsertDb(stateColl, fg[s].db, TheGuild) = "done"
    /\ IsNone(FindOrInsertState(stateColl, fg[s].db, TheGuild).court_category)

\* initialize in slot s answers that a category must be configured and
\* leaves the lawsuits, the court rooms, the roles, the channels, the
\* members' roles and the setup tasks as they were.
AnswersNoCategory(s) ==
    /\ fg'[s].pc = "respond"
    /\ fg'[s].resp = Some(RespNoCategory)
    /\ Stored'.lawsuits = Stored.lawsuits
    /\ Stored'.court_rooms = Stored.court_rooms
    /\ roles' = roles
    /\ channels' = channels
    /\ memberRoles' = memberRoles
    /\ tails' = tails

\* C9 as stated: whenever the guild has no category configured, initialize
\* returns the configure-a-category response and persists, creates and
\* grants nothing.
C9_NoCategoryIsRefused ==
    [][\A s \in Slots : ReadsStateWithoutCategory(s) => AnswersNoCategory(s)]_vars

\* C9, amended: the same, when the State holds no idle room either.
C9_NoCategoryNoIdleRoomIsRefused ==
    [][\A s \in Slots :
          (/\ ReadsStateWithoutCategory(s)
           /\ FreeRoom(FindOrInsertState(stateColl, fg[s].db, TheGuild)) = 0)
              => AnswersNoCategory(s)]_vars

\* A create was answered with the configure-a-category response.
C9_Witness ==
    \E s \in Slots :
        /\ fg[s].cmd = "create" /\ fg[s].pc = "respond"
        /\ fg[s].resp = Some(RespNoCategory)

\* The State document of the guild as it is stored.
StoredDoc ==
    IF HasState(stateColl, TheGuild)
    THEN Unwrap(FindOne(stateColl, StateFilter(TheGuild)))
    ELSE SerializeState(NewState(TheGuild))

\* The first room of a guild is being allocated in slot s.
AllocatesFirstRoom(s) == fg[s].cmd = "create" /\ fg[s].room_len = 0

\* The channels of the stored rooms that are ongoing.
OngoingChannels(state) ==
    {state.court_rooms[i].channel_id :
        i \in {j \in 1..Len(state.court_rooms) : state.court_rooms[j].ongoing_lawsuit}}

\* C10 as stated, for the names: with no room stored, create_room creates
\* the channel room-1 and the role process-1.
C10_FirstRoomIsRoom1 ==
    [][\A s \in Slots :
          /\ (CreateRoomCreateRole(s) /\ AllocatesFirstRoom(s))
                => \E r \in roles' \ roles : r.name = <<"process-1">>
          /\ (CreateRoomCreateChannel(s) /\ AllocatesFirstRoom(s))
                => \E c \in channels' \ channels : c.name = <<"room-1">>]_vars

\* C10, amended: with a category configured and no room stored, create_room
\* creates the role "Gerichtsprozess 1" and the channel "gerichtsraum-1" in
\* the category, and persists one CourtRoom, not ongoing, when it allocates;
\* no step of a command handler appends a lawsuit or marks a room ongoing,
\* and a setup task is spawned only for a room that is stored.
C10_FirstRoomThenSetup ==
    [][\A s \in Slots :
          /\ (CreateRoomCreateRole(s) /\ AllocatesFirstRoom(s))
                => roles' \ roles
                      = {[id |-> nextSnowflake, name |-> <<"Gerichtsprozess ", "1">>]}
          /\ (CreateRoomCreateChannel(s) /\ AllocatesFirstRoom(s))
                => channels' \ channels
                      = {[id |-> nextSnowflake, name |-> <<"gerichtsraum-", "1">>,
                          parent_id |-> fg[s].category]}
          /\ (CreateRoomAddCourtRoom(s) /\ AllocatesFirstRoom(s)
                  /\ fg'[s].pc = "open_msg")
                => Stored'.court_rooms
                      = <<[channel_id |-> Unwrap(fg[s].channel_id),
                           ongoing_lawsuit |-> FALSE,
                           role_id |-> Unwrap(fg[s].role_id)]>>
          /\ (fg'[s] # fg[s] /\ stateColl' # stateColl)
                => /\ Len(StoredDoc'.lawsuits) <= Len(StoredDoc.lawsuits)
                   /\ OngoingChannels(StoredDoc') \subseteq OngoingChannels(StoredDoc)
          /\ (SendProcessOpenMessage(s) /\ tails' # tails)
                => \E i \in 1..Len(Stored.court_rooms) :
                      Stored.court_rooms[i].channel_id = Unwrap(fg[s].room).channel_id]_vars

\* The setup task of the first lawsuit of a guild has ended: the room
\* "gerichtsraum-1" is stored ongoing and the lawsuit is stored.
C10_Witness ==
    /\ Len(Stored.court_rooms) = 1
    /\ Stored.court_rooms[1].ongoing_lawsuit
    /\ \E c \in channels :
          c.id = Stored.court_rooms[1].channel_id /\ c.name = <<"gerichtsraum-", "1">>
    /\ Len(Stored.lawsuits) = 1
    /\ tails[Stored.lawsuits[1].id].pc = "done"

\* The setup task of lawsuit id grants the room's role to user in this step.
GrantsRoleTo(id, user) ==
    /\ SetupAssignRole(id)
    /\ memberRoles' = AssignRole(memberRoles, user, Unwrap(tails[id].room).role_id)

\* C11: the setup task grants the room's role to the accused, the accused's
\* lawyer if there is one, the plaintiff, the plaintiff's lawyer if there is
\* one, and the judge, in this order and one per step: the k-th grant goes to
\* the k-th of them.  When a grant is made the lawsuit is stored and the
\* room it is bound to is stored ongoing.
C11_GrantsInFixedOrder ==
    [][\A id \in LawsuitIds :
          SetupAssignRole(id)
              => LET l == tails[id].lawsuit
                     order == <<l.accused>> \o l.accused_lawyer \o <<l.plaintiff>>
                                  \o l.plaintiff_lawyer \o <<l.judge>>
                     k == Len(order) - Len(tails[id].grants) + 1
                 IN /\ k \in 1..Len(order)
                    /\ GrantsRoleTo(id, order[k])
                    /\ tails[id].grants = SubSeq(order, k, Len(order))
                    /\ tails'[id].pc = IF k = Len(order) THEN "done" ELSE "assign_role"
                    /\ \E i \in 1..Len(StoredDoc.lawsuits) : StoredDoc.lawsuits[i].id = id
                    /\ SnowflakeToBson(l.court_room) \in
                           {StoredDoc.court_rooms[i].channel_id :
                               i \in {j \in 1..Len(StoredDoc.court_rooms) :
                                          StoredDoc.court_rooms[j].ongoing_lawsuit}}]_vars

\* The setup task of a lawsuit with both lawyers has granted the role to the
\* four participants before the judge and is about to grant it to the judge.
C11_Witness ==
    \E id \in LawsuitIds :
        /\ tails[id].pc = "assign_role"
        /\ IsSome(tails[id].lawsuit.accused_lawyer)
        /\ IsSome(tails[id].lawsuit.plaintiff_lawyer)
        /\ tails[id].grants = <<tails[id].lawsuit.judge>>
        /\ \A u \in {tails[id].lawsuit.accused, Unwrap(tails[id].lawsuit.accused_lawyer),
                      tails[id].lawsuit.plaintiff,
                      Unwrap(tails[id].lawsuit.plaintiff_lawyer)} :
              Unwrap(tails[id].room).role_id \in memberRoles[u]

\* The room of the create in slot s has no channel on the platform.
RoomChannelMissing(s) == \A c \in channels : c.id # Unwrap(fg[s].room).channel_id

\* The ids of the lawsuits stored for the guild.
StoredLawsuitIds == {StoredDoc.lawsuits[i].id : i \in 1..Len(StoredDoc.lawsuits)}

\* C12: when the channel of the allocated room cannot be resolved as the
\* opening announcement is sent, initialize answers with the channel-not-found
\* response and stops: the State (so the lawsuits and the room's ongoing
\* flag), the members' roles, the messages and the setup tasks are unchanged,
\* and no setup task is spawned for that lawsuit.  In every state, a lawsuit
\* is stored, and its setup task exists, only if its opening announcement
\* was sent.
C12_UnresolvedChannelStopsInitialize ==
    [][/\ \A s \in Slots :
            (fg[s].pc = "open_msg" /\ fg'[s] # fg[s] /\ RoomChannelMissing(s))
                => /\ fg'[s].pc = "respond"
                   /\ fg'[s].resp = Some(RespChannelNotFound)
                   /\ stateColl' = stateColl
                   /\ memberRoles' = memberRoles
                   /\ messages' = messages
                   /\ tails' = tails
                   /\ tails[fg[s].lawsuit.id].pc = "none"
                   /\ fg[s].lawsuit.id \notin StoredLawsuitIds
       /\ (tails' # tails \/ stateColl' # stateColl)
            => \A id \in LawsuitIds :
                  (tails'[id].pc # "none" \/ id \in StoredLawsuitIds')
                      => \E m \in messages' :
                            /\ m.title = "Prozess" /\ m.lawsuit = id
                            /\ tails'[id].pc # "none"]_vars

\* A create was answered with the channel-not-found response: its room was
\* allocated, the room's channel is gone, and the lawsuit has no setup task.
C12_Witness ==
    \E s \in Slots :
        /\ fg[s].cmd = "create" /\ fg[s].pc = "respond"
        /\ fg[s].resp = Some(RespChannelNotFound)
        /\ IsSome(fg[s].room)
        /\ RoomChannelMissing(s)
        /\ tails[fg[s].lawsuit.id].pc = "none"

\* The channels that carry the name create_room derives in slot s.
NamedLikeRoom(s) == {c \in channels : c.name = RoomName(fg[s].room_len + 1)}

\* C13: when create_room looks for the channel of the derived name and the
\* guild has one, every one of that name outside the configured category,
\* initialize answers with the wrong-category response: no channel is
\* created, none changes its category, the State (so the court rooms and
\* the lawsuits) is unchanged, no role is granted and no setup task starts.
C13_WrongCategoryIsRefused ==
    [][\A s \in Slots :
          (/\ CreateRoomFetchChannels(s)
           /\ NamedLikeRoom(s) # {}
           /\ \A c \in NamedLikeRoom(s) : c.parent_id # fg[s].category)
              => /\ fg'[s].pc = "respond"
                 /\ fg'[s].resp = Some(RespWrongCategory(fg[s].room_len + 1))
                 /\ IsNone(fg'[s].channel_id)
                 /\ channels' = channels
                 /\ stateColl' = stateColl
                 /\ memberRoles' = memberRoles
                 /\ tails' = tails]_vars

\* A create was answered with the wrong-category response while a channel
\* of the derived name lives in another category than the configured one.
C13_Witness ==
    \E s \in Slots :
        /\ fg[s].cmd = "create" /\ fg[s].pc = "respond"
        /\ \E n \in 1..SerialCommands :
              /\ fg[s].resp = Some(RespWrongCategory(n))
              /\ \E c \in channels :
                    /\ c.name = RoomName(n)
                    /\ IsSome(c.parent_id)
                    /\ c.parent_id # Stored.court_category

\* The roles that carry the name create_room derives in slot s.
RolesNamedLikeRoom(s) == {r \in roles : r.name = RoleName(fg[s].room_len + 1)}

\* No two roles and no two channels of the guild have the same name.
NamesAreUnique ==
    /\ \A r1, r2 \in roles : r1.name = r2.name => r1 = r2
    /\ \A c1, c2 \in channels : c1.name = c2.name => c1 = c2

\* C14: create_room creates a role only when the guild has no role of the
\* derived name and a channel only when it has no channel of the derived
\* name; an attempt that finds the role or the channel of an earlier, failed
\* attempt takes it over; and however attempts fail and are repeated, no two
\* roles and no two channels of the guild get the same name.
C14_ProvisioningIsIdempotent ==
    [][/\ \A s \in Slots :
            /\ CreateRoomCreateRole(s) => RolesNamedLikeRoom(s) = {}
            /\ CreateRoomCreateChannel(s) => NamedLikeRoom(s) = {}
            /\ (CreateRoomFetchGuild(s) /\ RolesNamedLikeRoom(s) # {})
                  => /\ fg'[s].pc = "cr_channels"
                     /\ \E r \in RolesNamedLikeRoom(s) : fg'[s].role_id = Some(r.id)
                     /\ roles' = roles
            /\ (CreateRoomFetchChannels(s) /\ NamedLikeRoom(s) # {}
                     /\ fg'[s].pc # "respond")
                  => /\ fg'[s].pc = "cr_add"
                     /\ \E c \in NamedLikeRoom(s) : fg'[s].channel_id = Some(c.id)
                     /\ channels' = channels
       /\ NamesAreUnique']_vars

\* The second create of the guild has taken over a role that it did not
\* create: the first attempt made the role and the channel and then failed
\* before the room was stored.
C14_Witness ==
    \E s \in Slots :
        /\ fg[s].cmd = "create" /\ fg[s].pc = "cr_channels"
        /\ fg[s].lawsuit.id = 2
        /\ fg[s].room_len = 0
        /\ Unwrap(fg[s].role_id) + 1 < nextSnowflake
        /\ Cardinality(roles) = 1
        /\ NamedLikeRoom(s) # {}
        /\ Len(Stored.court_rooms) = 0

\* A call of the try_join! of the close in slot s returns an error.
BatchFails(s) == HandlerFails(s) /\ fg[s].pc = "batch"

\* C15: when a call of rule_verdict's try_join! fails, the error reaches
\* handle_interaction, which answers with the generic text; what the calls
\* that completed before have written and removed stays as it is, and the
\* handler does nothing more than send its reply: it strips no lawyer and
\* sends no closure announcement.
C15_FailedBatchStopsRuleVerdict ==
    [][\A s \in Slots :
          /\ BatchFails(s)
                => /\ fg'[s].pc = "respond"
                   /\ fg'[s].resp = Some(RespInternalError)
                   /\ fg'[s].strip = <<>> /\ fg'[s].pending = {}
                   /\ stateColl' = stateColl
                   /\ memberRoles' = memberRoles
                   /\ messages' = messages
          /\ (fg[s].pc = "respond" /\ fg'[s] # fg[s])
                => /\ fg'[s] = IdleTask
                   /\ stateColl' = stateColl
                   /\ memberRoles' = memberRoles
                   /\ messages' = messages
          /\ (fg'[s].pc \in {"lawyers", "close_msg"} /\ fg[s].pc = "batch")
                => RuleVerdictBatch(s) /\ Cardinality(fg[s].pending) = 1]_vars

\* A close entered with no setup task running failed inside the try_join!
\* after set_court_room had completed: the room is stored idle, the judge
\* still holds the room's role, and no closure announcement was sent.
C15_Witness ==
    \E s \in Slots :
        /\ fg[s].cmd = "close" /\ fg[s].pc = "respond"
        /\ fg[s].resp = Some(RespInternalError)
        /\ fg[s].quiet
        /\ IsSome(fg[s].lawsuit.verdict)
        /\ RoomsIn(Stored, fg[s].lawsuit.court_room) # {}
        /\ \A i \in RoomsIn(Stored, fg[s].lawsuit.court_room) :
              ~Stored.court_rooms[i].ongoing_lawsuit
        /\ Unwrap(fg[s].room).role_id \in memberRoles[fg[s].lawsuit.judge]
        /\ \A m \in messages :
              ~(m.title = "Prozess abgeschlossen" /\ m.lawsuit = fg[s].lawsuit.id)

\* rule_verdict has returned Ok to the close in slot s: every call succeeded
\* and the closure announcement was sent.
ClosedOk(s) ==
    /\ fg[s].cmd = "close" /\ fg[s].pc = "respond"
    /\ fg[s].resp = Some(RespClosed)

\* The lawyers of the lawsuit closed in slot s, the accused's first.
LawyersOf(s) == fg[s].lawsuit.accused_lawyer \o fg[s].lawsuit.plaintiff_lawyer

\* No lawyer of the lawsuit closed in slot s holds the room's role.
LawyersStripped(s) ==
    \A k \in 1..Len(LawyersOf(s)) :
        Unwrap(fg[s].room).role_id \notin memberRoles[LawyersOf(s)[k]]

ClosedUnannounced(s) ==
    /\ fg[s].cmd = "close" /\ fg[s].pc = "respond"
    /\ fg[s].resp = Some(RespChannelNotFound)

C18_PrisonRoundTrip ==
    [][\A s \in Slots :
          /\ ArrestAddToPrison(s)
                => /\ IsSome(fg[s].prison_role)
                   /\ FindPrisonEntry(prisonColl', TheGuild, fg[s].target)
                          = Some([guild_id |-> TheGuild, user_id |-> fg[s].target])
          /\ ReleaseRemoveFromPrison(s)
                => /\ IsSome(fg[s].prison_role)
                   /\ FindPrisonEntry(prisonColl', TheGuild, fg[s].target) = None
                   /\ \A i \in 1..Len(prisonColl') :
                          prisonColl'[i] # SerializePrisonEntry(
                                               [guild_id |-> TheGuild,
                                                user_id |-> fg[s].target])]_vars

\* An arrest has stored the entry of a user of whom another guild holds a
\* row as well: find_prison_entry returns the entry of this guild.
C18_Witness ==
    \E s \in Slots :
        /\ fg[s].cmd = "arrest" /\ fg[s].pc = "ar_role"
        /\ fg[s].target = ForeignEntry.user_id
        /\ \E i \in 1..Len(prisonColl) : prisonColl[i] = SerializePrisonEntry(ForeignEntry)
        /\ FindPrisonEntry(prisonColl, TheGuild, fg[s].target)
               = Some([guild_id |-> TheGuild, user_id |-> fg[s].target])

\* A row for the guild and user is stored in the prison collection.
HasEntry(user) ==
    \E i \in 1..Len(prisonColl) :
        prisonColl[i] = SerializePrisonEntry([guild_id |-> TheGuild, user_id |-> user])

\* The prison role the stored State of the guild names, if any.
ConfiguredPrisonRole == DeserializeOption(StoredDoc.prison_role)

\* C19: the handler of a member-joined event reads the State and then looks
\* for the entry of the guild and the joining user.  If the State names a
\* prison role and the entry exists, the handler grants that role to the
\* member, and it takes no other step that changes roles; if the State names
\* no prison role, or the entry does not exist, the handler ends and the
\* members' roles are what they were.
C19_RejoinRestoresPrisonRole ==
    [][\A s \in Slots :
          /\ (JoinFindState(s) /\ FindOrInsertDb(stateColl, fg[s].db, TheGuild) = "done")
                => /\ memberRoles' = memberRoles
                   /\ IF fg[s].db = "find" /\ IsSome(ConfiguredPrisonRole)
                      THEN /\ fg'[s].pc = "join_entry"
                           /\ fg'[s].prison_role = ConfiguredPrisonRole
                           /\ fg'[s].target = fg[s].target
                      ELSE fg'[s] = IdleTask
          /\ JoinFindPrisonEntry(s)
                => /\ memberRoles' = memberRoles
                   /\ IF HasEntry(fg[s].target)
                      THEN fg'[s] = [fg[s] EXCEPT !.pc = "join_role"]
                      ELSE fg'[s] = IdleTask
          /\ JoinAddRole(s)
                => /\ fg'[s] = IdleTask
                   /\ fg[s].target \in members
                         => memberRoles' =
                               [memberRoles EXCEPT ![fg[s].target] =
                                   @ \cup {Unwrap(fg[s].prison_role)}]
          /\ (fg[s].cmd = "join" /\ fg'[s] # fg[s] /\ fg[s].pc # "join_role")
                => memberRoles' = memberRoles]_vars

\* A member who left while imprisoned has joined again: the handler of the
\* join has read the configured prison role and found the entry, and the
\* member, who holds no role yet, is about to be granted the prison role.
C19_Witness ==
    \E s \in Slots :
        /\ fg[s].cmd = "join" /\ fg[s].pc = "join_role"
        /\ fg[s].target \in members
        /\ memberRoles[fg[s].target] = {}
        /\ HasEntry(fg[s].target)
        /\ fg[s].prison_role = ConfiguredPrisonRole

\* C20: an arrest or a release that reads a State without a prison role is
\* answered with the set-a-role-first response; the step leaves the prison
\* collection and the members' roles as they were, and the handler goes on
\* to nothing but its reply.
C20_NoPrisonRoleIsRefused ==
    [][\A s \in Slots :
          /\ (/\ (ArrestFindState(s) \/ ReleaseFindState(s))
               /\ FindOrInsertDb(stateColl, fg[s].db, TheGuild) = "done"
               /\ IsNone(FindOrInsertState(stateColl, fg[s].db, TheGuild).prison_role))
                => /\ fg'[s].pc = "respond"
                   /\ fg'[s].resp = Some(RespSetRoleFirst)
                   /\ prisonColl' = prisonColl
                   /\ memberRoles' = memberRoles
          /\ (fg[s].pc = "respond" /\ fg[s].resp = Some(RespSetRoleFirst)
                   /\ fg'[s] # fg[s])
                => /\ fg'[s] = IdleTask
                   /\ prisonColl' = prisonColl
                   /\ memberRoles' = memberRoles]_vars

\* An arrest and a release, handled at the same time in a guild without a
\* prison role, were both answered with the set-a-role-first response.
C20_Witness ==
    \E s1, s2 \in Slots :
        /\ fg[s1].cmd = "arrest" /\ fg[s2].cmd = "release"
        /\ \A s \in {s1, s2} :
              fg[s].pc = "respond" /\ fg[s].resp = Some(RespSetRoleFirst)
        /\ IsNone(ConfiguredPrisonRole)

\* The handler in slot s ends its handling of an arrest, a release or a join
\* with this step: it returns to handle_interaction or to
\* guild_member_addition.
PrisonHandlingEnds(s) ==
    /\ fg[s].cmd \in {"arrest", "release", "join"}
    /\ fg[s].pc \notin {"idle", "respond"}
    /\ fg'[s].pc \in {"idle", "respond"}

\* The member holds the role, in the role sets mr; the collection coll holds
\* the entry of the guild and the user.
RoleIn(mr, user, role) == IsSome(role) /\ Unwrap(role) \in mr[user]
EntryIn(coll, user) ==
    \E i \in 1..Len(coll) :
        coll[i] = SerializePrisonEntry([guild_id |-> TheGuild, user_id |-> user])

HoldsRole(user, role) == RoleIn(memberRoles, user, role)

\* C21 as stated: when the handling of an arrest, a release or a join ends,
\* with or without an error, every member of the guild holds the configured
\* prison role if and only if the prison collection holds the entry of the
\* guild and that member.
C21_PrisonLockStep ==
    [][\A s \in Slots :
          PrisonHandlingEnds(s)
              => \A m \in members' \cap PrisonUsers :
                    RoleIn(memberRoles', m, ConfiguredPrisonRole')
                        <=> EntryIn(prisonColl', m)]_vars

\* C21: when the handling of an arrest, a release or a join that overlaps no
\* other handling ends without an error, the member it handled, if a member
\* of the guild at that moment, holds the prison role the handling read if
\* and only if the prison collection holds the entry of the guild and that
\* member.
C21_HandledMemberInLockStep ==
    [][\A s \in Slots :
          (/\ PrisonHandlingEnds(s)
           /\ ~HandlerFails(s)
           /\ fg'[s].resp # Some(RespInternalError)
           /\ fg[s].target \in members')
              => (RoleIn(memberRoles', fg[s].target, fg[s].prison_role)
                     <=> EntryIn(prisonColl', fg[s].target))]_vars

\* An arrest ended with its confirmation after the prison role was changed:
\* the arrested member holds the role and has the entry, and the member
\* arrested under the former role has the entry and not the role of now.
C21_Witness ==
    \E s \in Slots :
        /\ fg[s].cmd = "arrest" /\ fg[s].pc = "respond"
        /\ fg[s].resp = Some(RespArrested)
        /\ fg[s].prison_role = ConfiguredPrisonRole
        /\ HoldsRole(fg[s].target, ConfiguredPrisonRole) /\ HasEntry(fg[s].target)
        /\ \E m \in (members \cap PrisonUsers) \ {fg[s].target} :
              HasEntry(m) /\ ~HoldsRole(m, ConfiguredPrisonRole)

\* The State documents the collection holds for the guild.
StateDocsOf(guild_id) ==
    {i \in 1..Len(stateColl) : Matches(stateColl[i], StateFilter(guild_id))}

\* C22: the state collection holds at most one State document of the guild,
\* whichever way the handlers that find_or_insert_state interleave.
C22_OneStatePerGuild == Cardinality(StateDocsOf(TheGuild)) <= 1

\* The stored lawsuit new is the stored lawsuit old, but for a verdict that
\* was absent and is a text now.
SameLawsuitButVerdict(old, new) ==
    /\ [new EXCEPT !.verdict = None] = [old EXCEPT !.verdict = None]
    /\ IsSome(old.verdict) => new.verdict = old.verdict

\* C23: a step that is not the delete_guild of a clear keeps every stored
\* lawsuit and every stored court room of the guild in its place: a lawsuit
\* keeps its id, participants, reason and room, and a verdict once stored
\* stays what it is; a court room keeps its channel and its role.
C23_AppendOnlyOutsideClear ==
    [][(stateColl' # stateColl /\ ~\E s \in Slots : ClearDeleteGuild(s))
          => /\ Len(StoredDoc'.lawsuits) >= Len(StoredDoc.lawsuits)
             /\ \A i \in 1..Len(StoredDoc.lawsuits) :
                    SameLawsuitButVerdict(StoredDoc.lawsuits[i], StoredDoc'.lawsuits[i])
             /\ Len(StoredDoc'.court_rooms) >= Len(StoredDoc.court_rooms)
             /\ \A i \in 1..Len(StoredDoc.court_rooms) :
                    /\ StoredDoc'.court_rooms[i].channel_id
                           = StoredDoc.court_rooms[i].channel_id
                    /\ StoredDoc'.court_rooms[i].role_id
                           = StoredDoc.court_rooms[i].role_id]_vars

\* Two lawsuits and two court rooms are stored, and the first room has been
\* marked ongoing: the second push found the first lawsuit in place.
C23_Witness ==
    /\ Len(StoredDoc.lawsuits) = 2
    /\ Len(StoredDoc.court_rooms) = 2
    /\ StoredDoc.court_rooms[1].ongoing_lawsuit
    /\ StoredDoc.lawsuits[1].id # StoredDoc.lawsuits[2].id

\* C24: the delete_guild of a clear leaves a collection from which the next
\* find_or_insert_state of the guild returns the State new_state builds: no
\* lawsuits, no court rooms, no court category and no prison role.
C24_ClearLeavesFreshState ==
    [][\A s \in Slots :
          ClearDeleteGuild(s)
              => /\ Stored' = NewState(TheGuild)
                 /\ fg'[s].resp = Some(RespCleared)]_vars

\* A clear has answered in a guild for which an initialize had stored a room
\* and returned: what find_or_insert_state would read now is the fresh State.
C24_Witness ==
    \E s \in Slots :
        /\ fg[s].cmd = "clear" /\ fg[s].pc = "respond"
        /\ fg[s].resp = Some(RespCleared)
        /\ \A r \in Slots \ {s} : fg[r].pc = "idle"
        /\ acked # {}
        /\ Stored = NewState(TheGuild)

\* The three kinds of reply: the confirmations, the soft denials and the
\* generic error.
Confirmations ==
    {RespClosed, RespSet, RespCleared, RespArrested, RespReleased}
        \cup {RespOpened(c.id) : c \in channels}

SoftDenials ==
    {NoPermissions, RespNoCategory, RespChannelNotFound, RespNoActiveLawsuit,
     RespNotACategory, RespSetRoleFirst}
        \cup {RespWrongCategory(n) : n \in 1..(SerialCommands + 1)}

\* C25: a command handler hands exactly one Response to send_response, a
\* confirmation, a soft denial or the generic error text, and ends with it;
\* when a call of the handler returns an error the Response is the generic
\* error text, a constant that carries nothing of the error.
C25_OneReplyOfThreeKinds ==
    [][\A s \in Slots :
          /\ (fg[s].pc # "respond" /\ fg'[s].pc = "respond")
                => /\ IsSome(fg'[s].resp)
                   /\ Unwrap(fg'[s].resp)
                          \in Confirmations' \cup SoftDenials \cup {RespInternalError}
          /\ (HandlerFails(s) /\ fg[s].cmd # "join")
                => /\ fg'[s].pc = "respond"
                   /\ fg'[s].resp = Some(EphemeralStr("An internal error occurred"))
          /\ (fg[s].pc = "respond" /\ fg'[s] # fg[s]) => fg'[s] = IdleTask
          /\ (fg[s].cmd \notin {"none", "join"} /\ fg[s].pc # "idle"
                   /\ fg'[s].pc = "idle")
                => fg[s].pc = "respond" /\ IsSome(fg[s].resp)]_vars

\* A call inside rule_verdict returned an error after the close had found
\* its lawsuit and room: the reply that waits to be sent is the generic text.
C25_Witness ==
    \E s \in Slots :
        /\ fg[s].cmd = "close" /\ fg[s].pc = "respond"
        /\ IsSome(fg[s].room)
        /\ fg[s].lawsuit.verdict # None
        /\ fg[s].resp = Some(RespInternalError)

\* C26: a call of the setup task that returns an error ends the task and
\* nothing else: the handlers, the acknowledgements given, the stored State,
\* the members' roles and the messages are what they were, so nothing the
\* task had done is undone and nothing reaches the caller; the task takes no
\* step after it; and initialize returns its acknowledgement whatever has
\* become of the task by then.
C26_TailFailureIsSilent ==
    [][/\ \A id \in LawsuitIds :
             /\ SetupFails(id) => tails'[id] = EndedTail("failed")
             /\ (tails[id].pc # "failed" /\ tails'[id].pc = "failed")
                   => /\ fg' = fg /\ acked' = acked
                      /\ stateColl' = stateColl /\ memberRoles' = memberRoles
                      /\ messages' = messages /\ roles' = roles /\ channels' = channels
             /\ tails[id].pc = "failed" => tails'[id] = tails[id]
             /\ Setup(id) => TailRunning(id)
       /\ \A s \in Slots :
             InitializeReturn(s)
                 => /\ fg'[s].resp = Some(RespOpened(fg[s].lawsuit.court_room))
                    /\ acked' = acked \cup {fg[s].lawsuit.id}
                    /\ tails' = tails]_vars

\* The setup task of a lawsuit failed at add_lawsuit while initialize had
\* yet to return, and initialize has returned its acknowledgement since:
\* the lawsuit is not stored, its room is not ongoing and nobody holds a
\* role.
C26_Witness ==
    \E s \in Slots :
        /\ fg[s].cmd = "create" /\ fg[s].pc = "respond"
        /\ fg[s].resp = Some(RespOpened(fg[s].lawsuit.court_room))
        /\ tails[fg[s].lawsuit.id].pc = "failed"
        /\ fg[s].lawsuit.id \notin StoredLawsuitIds
        /\ OngoingChannels(Stored) = {}
        /\ \A u \in Users : memberRoles[u] = {}

\* The create in slot s took a room it read as idle from the State, and has
\* yet to return from initialize.
ReadIdleRoom(s) ==
    /\ fg[s].cmd = "create" /\ fg[s].pc \in {"open_msg", "init_return"}
    /\ IsSome(fg[s].room) /\ IsNone(fg[s].role_id)

\* Two creates handled at the same time took the same idle room.
BothReadSameRoom(s1, s2) ==
    /\ s1 # s2 /\ ReadIdleRoom(s1) /\ ReadIdleRoom(s2)
    /\ fg[s1].room = fg[s2].room

\* C27: when two creates handled at the same time have read the same idle
\* room, each can take its next step whatever the other does; each sends its
\* announcement, spawns its setup task with its lawsuit bound to that room
\* and returns its acknowledgement, leaving the other as it is; and every
\* setup task that is running can step, and its add_lawsuit appends its own
\* lawsuit, bound to its room, to the lawsuits stored, whatever lawsuits are
\* stored for that room already.
C27_ConcurrentCreatesBothComplete ==
    /\ [](\A s1, s2 \in Slots :
              BothReadSameRoom(s1, s2)
                  => /\ fg[s1].pc = "open_msg" => ENABLED SendProcessOpenMessage(s1)
                     /\ fg[s1].pc = "init_return" => ENABLED InitializeReturn(s1))
    /\ [](\A id \in LawsuitIds : TailRunning(id) => ENABLED Setup(id))
    /\ [][/\ \A s1, s2 \in Slots :
                 /\ (BothReadSameRoom(s1, s2) /\ SendProcessOpenMessage(s1))
                       => /\ fg'[s1].pc = "init_return"
                          /\ fg'[s2] = fg[s2]
                          /\ tails'[fg[s1].lawsuit.id].pc = "add_lawsuit"
                          /\ tails'[fg[s1].lawsuit.id].lawsuit.court_room
                                 = Unwrap(fg[s1].room).channel_id
                 /\ (BothReadSameRoom(s1, s2) /\ InitializeReturn(s1))
                       => /\ fg'[s1].resp
                                 = Some(RespOpened(Unwrap(fg[s1].room).channel_id))
                          /\ fg'[s2] = fg[s2]
           /\ \A id \in LawsuitIds :
                 (SetupAddLawsuit(id) /\ HelperDb(stateColl, tails[id].db, TheGuild) = "done")
                       => /\ StoredDoc'.lawsuits
                                 = Append(StoredDoc.lawsuits,
                                          SerializeLawsuit(tails[id].lawsuit))
                          /\ tails[id].lawsuit.court_room
                                 = Unwrap(tails[id].room).channel_id
                          /\ tails'[id].pc = "set_court_room"]_vars

\* Two creates that read the same idle room are both about to return their
\* acknowledgement, and both lawsuits are stored, bound to that room.
C27_Witness ==
    \E s1, s2 \in Slots :
        /\ BothReadSameRoom(s1, s2)
        /\ fg[s1].pc = "init_return" /\ fg[s2].pc = "init_return"
        /\ {fg[s1].lawsuit.id, fg[s2].lawsuit.id} \subseteq StoredLawsuitIds
        /\ \A i \in 1..Len(Stored.lawsuits) :
               Stored.lawsuits[i].court_room = Unwrap(fg[s1].room).channel_id

\* The rows of the prison collection for the guild and the user.
EntriesOf(user) ==
    {i \in 1..Len(prisonColl) : Matches(prisonColl[i], PrisonFilter(TheGuild, user))}

\* C28: the prison collection never holds more than one row for the guild
\* and a user; add_to_prison for a user who has a row leaves the collection
\* as it is; remove_from_prison for a user who has no row leaves the
\* collection as it is and returns Ok, so that the release goes on to the
\* role and, the user being a member, answers with its confirmation.
C28_ArrestReleaseIdempotent ==
    /\ [](\A u \in Users : Cardinality(EntriesOf(u)) <= 1)
    /\ [][\A s \in Slots :
             /\ (ArrestAddToPrison(s) /\ EntriesOf(fg[s].target) # {})
                   => prisonColl' = prisonColl /\ fg'[s].pc = "ar_role"
             /\ (ReleaseRemoveFromPrison(s) /\ EntriesOf(fg[s].target) = {})
                   => prisonColl' = prisonColl /\ fg'[s].pc = "rl_role"
             /\ (ReleaseRemoveRole(s) /\ fg[s].target \in members)
                   => fg'[s].resp = Some(RespReleased)]_vars

\* A member who has the entry and holds the prison role is arrested again:
\* add_to_prison has run and the member's row is the only one.
C28_Witness ==
    \E s \in Slots :
        /\ fg[s].cmd = "arrest" /\ fg[s].pc = "ar_role"
        /\ \A r \in Slots \ {s} : fg[r].pc = "idle"
        /\ HoldsRole(fg[s].target, fg[s].prison_role)
        /\ Cardinality(EntriesOf(fg[s].target)) = 1

\* C29: an arrest reaches its role change only through add_to_prison, and a
\* release only through remove_from_prison, so that the entry is written,
\* or deleted, before the member is looked up.  When the lookup or the role
\* change then fails, the command is answered with the generic error and the
\* prison collection stays as the store call left it: the entry of an
\* arrested user who is not a member is stored, and the entry of a released
\* one is gone.  The handler of a join grants the role it read to the
\* joining member whose entry it found.
C29_StoreWritePrecedesRoleChange ==
    [][\A s \in Slots :
          /\ (fg[s].pc # "ar_role" /\ fg'[s].pc = "ar_role")
                => fg[s].pc = "ar_add" /\ EntryIn(prisonColl', fg[s].target)
          /\ (fg[s].pc # "rl_role" /\ fg'[s].pc = "rl_role")
                => fg[s].pc = "rl_remove" /\ ~EntryIn(prisonColl', fg[s].target)
          /\ (fg[s].cmd \in {"arrest", "release"} /\ memberRoles' # memberRoles
                   /\ fg'[s] # fg[s])
                => fg[s].pc \in {"ar_role", "rl_role"}
          /\ (/\ fg[s].pc \in {"ar_role", "rl_role"} /\ fg'[s] # fg[s]
               /\ (HandlerFails(s) \/ fg[s].target \notin members))
                => /\ fg'[s].pc = "respond"
                   /\ fg'[s].resp = Some(RespInternalError)
                   /\ prisonColl' = prisonColl
                   /\ memberRoles' = memberRoles
                   /\ (HasEntry(fg[s].target) <=> (fg[s].pc = "ar_role"))
          /\ (JoinAddRole(s) /\ fg[s].target \in members)
                => /\ HasEntry(fg[s].target)
                   /\ RoleIn(memberRoles', fg[s].target, fg[s].prison_role)]_vars

\* The arrest of a user who is not a member of the guild has ended with the
\* generic error, and the entry of the user is stored.
C29_Witness ==
    \E s \in Slots :
        /\ fg[s].cmd = "arrest" /\ fg[s].pc = "respond"
        /\ fg[s].resp = Some(RespInternalError)
        /\ fg[s].target \notin members
        /\ IsSome(fg[s].prison_role)
        /\ HasEntry(fg[s].target)

\* Every lawsuit announced in the channel has had its closure announced
\* there, and there is one: a lawsuit was closed in the channel and no
\* lawsuit has been opened in it since.
AllClosedIn(channel_id) ==
    /\ \E m \in messages : m.channel_id = channel_id /\ m.title = "Prozess abgeschlossen"
    /\ \A m \in messages :
          (m.channel_id = channel_id /\ m.title = "Prozess")
              => [m EXCEPT !.title = "Prozess abgeschlossen"] \in messages

\* The close in slot s reads a State in which its channel holds no lawsuit
\* without a verdict, or is no court room.
NothingToClose(s) ==
    \/ FindOpenLawsuit(FindOrInsertState(stateColl, fg[s].db, TheGuild), fg[s].channel) = 0
    \/ FindCourtRoom(FindOrInsertState(stateColl, fg[s].db, TheGuild), fg[s].channel) = 0

\* The close in slot s is answered that no lawsuit is active in the channel,
\* and the step leaves the stored lawsuits and rooms, the members' roles and
\* the messages as they were.
AnswersNoActiveLawsuit(s) ==
    /\ fg'[s].pc = "respond"
    /\ fg'[s].resp = Some(RespNoActiveLawsuit)
    /\ StoredDoc' = StoredDoc
    /\ memberRoles' = memberRoles
    /\ messages' = messages

\* C30: a close that reads a State in which its channel holds no lawsuit
\* without a verdict, or is no court room, is answered that no lawsuit is
\* active and changes nothing; so is a close in a channel whose lawsuits have
\* all been closed.
C30_CloseWithoutActiveLawsuit ==
    [][\A s \in Slots :
          (CloseFindState(s) /\ FindOrInsertDb(stateColl, fg[s].db, TheGuild) = "done")
              => /\ NothingToClose(s) => AnswersNoActiveLawsuit(s)
                 /\ AllClosedIn(fg[s].channel) => AnswersNoActiveLawsuit(s)]_vars

\* The lawsuit most recently bound to the room: the last one in stored order
\* whose court_room is the room's channel.
LatestLawsuitIn(state, room_id) ==
    LET bound == {n \in 1..Len(state.lawsuits) : state.lawsuits[n].court_room = room_id}
    IN state.lawsuits[CHOOSE n \in bound : \A m \in bound : m <= n]

\* C31: a close that finds a lawsuit in its channel takes the lawsuit most
\* recently bound to the room into rule_verdict, so the roles removed and the
\* case announced are those of the latest lawsuit.
C31_ClosesLatestLawsuit ==
    [][\A s \in Slots :
          (CloseFindState(s) /\ IsSome(fg'[s].room))
              => fg'[s].lawsuit.id
                    = LatestLawsuitIn(FindOrInsertState(stateColl, fg[s].db, TheGuild),
                                      fg[s].channel).id]_vars

\* The setup task of the lawsuit closed in slot s has run to its end.
SetupFinished(s) == tails[fg[s].lawsuit.id].pc = "done"

\* The participants of the lawsuit closed in slot s: the accused, the
\* plaintiff, the judge and the lawyers.
ParticipantsOf(s) ==
    {fg[s].lawsuit.accused, fg[s].lawsuit.plaintiff, fg[s].lawsuit.judge}
        \cup {LawyersOf(s)[k] : k \in 1..Len(LawyersOf(s))}

\* The lawsuit closed in slot s is not half-open: its room is stored idle and
\* no participant holds the room's role.
NotHalfOpen(s) ==
    /\ RoomsIn(Stored, fg[s].lawsuit.court_room) # {}
    /\ \A i \in RoomsIn(Stored, fg[s].lawsuit.court_room) :
          ~Stored.court_rooms[i].ongoing_lawsuit
    /\ \A u \in ParticipantsOf(s) : Unwrap(fg[s].room).role_id \notin memberRoles[u]

ChannelIdsDistinctIn(state) ==
    \A i, j \in 1..Len(state.court_rooms) :
        state.court_rooms[i].channel_id = state.court_rooms[j].channel_id => i = j

\* The State holds its rooms as creates handled one after the other store
\* them: room k with the channel named gerichtsraum-k.
RoomsAsProvisioned(state) ==
    \A k \in 1..Len(state.court_rooms) :
        \E c \in channels : /\ c.id = state.court_rooms[k].channel_id
                             /\ c.name = RoomName(k)

\* C33 as stated: the channel ids of the stored court rooms are pairwise
\* distinct in every reachable state, concurrent provisioning included.
C33_ChannelIdsDistinct == ChannelIdsDistinctIn(Stored)

\* C33, amended: a create that stores its room while the State still holds
\* the rooms it counted, each with the channel of its number, stores a
\* channel id that no stored room holds.  Two creates that count the same
\* rooms derive the same room number, and the second to store can store the
\* channel of the first.
C33_UnracedProvisioningKeepsChannelIdsDistinct ==
    [][\A s \in Slots :
          (/\ CreateRoomAddCourtRoom(s)
           /\ stateColl' # stateColl
           /\ Stored'.court_rooms # Stored.court_rooms
           /\ Len(Stored.court_rooms) = fg[s].room_len
           /\ RoomsAsProvisioned(Stored)
           /\ ChannelIdsDistinctIn(Stored))
              => /\ Len(Stored'.court_rooms) = fg[s].room_len + 1
                 /\ ChannelIdsDistinctIn(Stored')]_vars

\* A second room was stored by a create that no other create raced: the
\* State holds two rooms with different channels.
C33_Witness ==
    /\ Len(Stored.court_rooms) = 2
    /\ RoomsAsProvisioned(Stored)
    /\ ChannelIdsDistinctIn(Stored)
    /\ \E s \in Slots : fg[s].pc = "open_msg" /\ fg[s].room_len = 1

\* The idle rooms of the State, by their place in stored order.
IdleRoomsIn(state) ==
    {n \in 1..Len(state.court_rooms) : ~state.court_rooms[n].ongoing_lawsuit}

\* The create in slot s reads a State that holds an idle room.
ReadsIdleRoom(s) ==
    /\ InitializeFindState(s)
    /\ FindOrInsertDb(stateColl, fg[s].db, TheGuild) # "insert"
    /\ IdleRoomsIn(FindOrInsertState(stateColl, fg[s].db, TheGuild)) # {}

\* The create in slot s goes on to the announcement with the first idle room
\* of the State it read, and nothing is provisioned.
SelectsFirstIdleRoom(s) ==
    LET state == FindOrInsertState(stateColl, fg[s].db, TheGuild)
        first == CHOOSE n \in IdleRoomsIn(state) : \A m \in IdleRoomsIn(state) : n <= m
    IN /\ fg'[s].pc = "open_msg"
       /\ fg'[s].room = Some(state.court_rooms[first])
       /\ roles' = roles
       /\ channels' = channels
       /\ nextSnowflake' = nextSnowflake

\* The create in slot s is answered with the channel-not-found response.  It
\* tries no other room and provisions none, and nothing is stored, sent,
\* granted or spawned.
StopsAtUnresolvedChannel(s) ==
    /\ fg'[s].pc = "respond"
    /\ fg'[s].resp = Some(RespChannelNotFound)
    /\ fg'[s].room = fg[s].room
    /\ stateColl' = stateColl
    /\ roles' = roles
    /\ channels' = channels
    /\ memberRoles' = memberRoles
    /\ messages' = messages
    /\ tails' = tails

\* C34: initialize selects the first idle room in stored order and provisions
\* no room while the State it reads holds an idle one; when the channel of
\* the selected room cannot be resolved, it answers with the
\* channel-not-found response and persists nothing, whatever other idle
\* rooms and whatever category the State holds.
C34_FirstIdleRoomIsSelected ==
    [][\A s \in Slots :
          /\ ReadsIdleRoom(s) => SelectsFirstIdleRoom(s)
          /\ (SendProcessOpenMessage(s) /\ RoomChannelMissing(s))
                => StopsAtUnresolvedChannel(s)]_vars

\* A create was answered with the channel-not-found response for the first
\* stored room, while the second stored room is idle, its channel exists and
\* a category is configured.
C34_Witness ==
    \E s \in Slots :
        /\ fg[s].cmd = "create" /\ fg[s].pc = "respond"
        /\ fg[s].resp = Some(RespChannelNotFound)
        /\ Len(Stored.court_rooms) >= 2
        /\ fg[s].room = Some(Stored.court_rooms[1])
        /\ ~Stored.court_rooms[2].ongoing_lawsuit
        /\ \E c \in channels : c.id = Stored.court_rooms[2].channel_id
        /\ IsSome(Stored.court_category)

\* The commands that ask for MANAGE_GUILD.
GatedCommands == {"create", "set_category", "clear", "set_role", "arrest", "release"}

\* The step leaves the two collections and the platform's roles, channels,
\* member roles and messages as they were, and spawns no task.
NothingChanges ==
    /\ stateColl' = stateColl
    /\ prisonColl' = prisonColl
    /\ roles' = roles
    /\ channels' = channels
    /\ memberRoles' = memberRoles
    /\ messages' = messages
    /\ tails' = tails

\* C35: create, set_category, clear, set_role, arrest and release, received
\* from a member without MANAGE_GUILD, are answered NoPermissions at once,
\* and nothing in the store or on the platform changes.  A handler that
\* changes something while it serves a member without the permission is
\* serving a close (or a join, which is no command), and a close changes
\* lawsuits, rooms, roles or messages for such a member only when the member
\* is the judge of the lawsuit.
C35_UnprivilegedCommandsAreRefused ==
    [][\A s \in Slots :
          /\ (fg[s].pc = "idle" /\ fg'[s].cmd \in GatedCommands /\ ~fg'[s].perm)
                => /\ fg'[s].pc = "respond"
                   /\ fg'[s].resp = Some(NoPermissions)
                   /\ NothingChanges
          /\ (fg[s].pc # "idle" /\ fg'[s] # fg[s] /\ ~fg[s].perm /\ ~NothingChanges)
                => fg[s].cmd \in {"close", "join"}
          /\ (/\ fg[s].cmd = "close" /\ fg'[s] # fg[s] /\ ~fg[s].perm
              /\ fg[s].user # fg[s].lawsuit.judge)
                => /\ memberRoles' = memberRoles
                   /\ messages' = messages
                   /\ (stateColl' # stateColl => Stored' = Stored)]_vars

\* A member without MANAGE_GUILD asked for a clear in a guild that has a
\* court room stored and a member in prison, and was answered NoPermissions.
C35_Witness ==
    \E s \in Slots :
        /\ fg[s].cmd = "clear" /\ ~fg[s].perm
        /\ fg[s].pc = "respond" /\ fg[s].resp = Some(NoPermissions)
        /\ Len(Stored.court_rooms) > 0
        /\ prisonColl # <<>>

\* C36: clear leaves the rows of the prison collection as they are, and no
\* member gains or loses a role by it; while the guild's State holds no
\* punitive role, as after a clear, the handling of a join grants nothing and
\* ends once it has read the State, whether or not the member has a
\* PrisonEntry; a join grants a role only when the State holds it as the
\* punitive role.
C36_ClearKeepsPrisonEntries ==
    [][\A s \in Slots :
          /\ ClearDeleteGuild(s)
                => /\ prisonColl' = prisonColl
                   /\ memberRoles' = memberRoles
          /\ (fg[s].cmd = "join" /\ fg'[s] # fg[s] /\ IsNone(Stored.prison_role))
                => /\ memberRoles' = memberRoles
                   /\ fg'[s].pc \in {"idle", "join_find"}
                   /\ FindOrInsertDb(stateColl, fg[s].db, TheGuild) = "done"
                         => fg'[s].pc = "idle"
          /\ (fg[s].cmd = "join" /\ fg'[s] # fg[s] /\ memberRoles' # memberRoles)
                => /\ IsSome(Stored.prison_role)
                   /\ memberRoles' = AssignRole(memberRoles, fg[s].target,
                                                Unwrap(Stored.prison_role))]_vars

\* After a clear, the join of member 12, whose PrisonEntry is still stored,
\* has found no State of the guild; the member does not hold role 70.
C36_Witness ==
    \E s \in Slots :
        /\ fg[s].cmd = "join" /\ fg[s].target = 12
        /\ fg[s].pc = "join_find" /\ fg[s].db # "find"
        /\ EntryIn(prisonColl, 12)
        /\ memberRoles[12] = {}

====
